---- MODULE Spec2Model ----
(***************************************************************************)
(* SNTPv4 client (NTPClient on top of NTPMessageTransport).                *)
(*                                                                         *)
(* The model follows one call of NTPClient::time() step by step:           *)
(*   idle -> called -> built -> avail -> recv (<-> yielding) -> polled     *)
(*        -> reading -> received -> valid -> sleeping -> idle   (success)  *)
(*   any step            -> failed -> idle   (errno set, time() = -1)      *)
(*   received            -> crashed          (the kiss-code lookup faults) *)
(* SpecRecv follows receive_server_reply() alone for several poll budgets, *)
(* SpecConfig adds begin() and setServerName() between the calls, SpecCodec*)
(* and SpecOnWire apply the timestamp codec and the offset step of time()  *)
(* to inputs of their own.                                                 *)
(* The WiFi status, the UDP socket (WiFiUDP) and the server are the        *)
(* environment: their answers are chosen with \E in the actions.           *)
(*                                                                         *)
(* Integers wider than 31 bits are kept as sequences of base-256 digits,   *)
(* most significant digit first (a uint32_t is 4 digits, a uint64_t 8).    *)
(* The packet buffer and the datagrams are sequences of 48 bytes in        *)
(* memory order.                                                           *)
(***************************************************************************)
EXTENDS Integers, Sequences, FiniteSets, TLC

VARIABLES
    pc,         \* position inside time() / on_wire_exchange() / packetExchange()
    packet,     \* time()'s local ntp_packet, 48 bytes in memory order
    t1,         \* time()'s local t1 (tstamp64_t value, 8 digits)
    xmt_bak,    \* on_wire_exchange()'s local xmt_bak (tstamp64_t value)
    timeout,    \* the timeout argument of packetExchange()
    ms_cycles,  \* receive_server_reply()'s local ms_cycles
    rply_size,  \* receive_server_reply()'s local rply_size
    errno,      \* the process-wide error code
    localPort,  \* _datagram.localPort()
    ret,        \* what the last time() call returned
    wire,       \* the datagram this call has sent (<<>>: none)
    oldReq,     \* the last datagram an earlier call has sent (<<>>: none)
    polls,      \* number of parsePacket() calls of this call
    rtag,       \* which datagram was read: "fresh", "stale", "forged", "none"
    ran,        \* the external operations this call has executed
    cause,      \* the return statement that set errno most recently
    bindOk,     \* number of successful _datagram.begin() calls (saturating)
    sends,      \* number of datagrams this call has put on the wire
    taken,      \* number of datagrams parsePacket() has reported to this call
    yields,     \* number of delay(1UL) calls of the polling loop
    rxLeft,     \* unread bytes of the datagram the socket holds
    readFrom,   \* the datagram a successful read() copied from (<<>>: none)
    kiss,       \* result of printKissCode(): "known", "unknown", "none"
    tloc,       \* time()'s argument tloc is not null
    slot,       \* the caller's time_t object tloc points to
    stored,     \* this call has written through tloc
    retval,     \* the number the last time() call returned
    calc,       \* time()'s locals of lines 84-123
    serverName, \* _ntp._server_name_str
    sentTo,     \* the host this call handed to beginPacket()
    configured, \* the begin() and setServerName() calls made so far
    codec,      \* inputs and results of the timestamp codec on its own
    onwire,     \* inputs and results of the offset step on its own
    net         \* the network and server of this run: "any" or "plain"

vars == <<pc, packet, t1, xmt_bak, timeout, ms_cycles, rply_size, errno,
          localPort, ret, wire, oldReq, polls, rtag, ran, cause, bindOk,
          sends, taken, yields, rxLeft, readFrom, kiss, tloc, slot, stored,
          retval, calc, serverName, sentTo, configured, codec, onwire, net>>

----------------------------------------------------------------------------
(* Bounds *)

\* the counter of successful binds stops counting here
MaxBinds == 3

\* the largest poll budget, besides TIMEOUT, given to receive_server_reply()
MaxTimeout == 6

\* the largest denominator of a fraction of a second given to the codec
MaxDenominator == 1000

\* the counters of datagrams sent and taken by one call stop counting here
MaxSends == 3

\* the number of begin() and setServerName() calls that are followed
MaxConfigCalls == 2

----------------------------------------------------------------------------
(* Program constants *)

UDP_LOCAL_PORT == 8123
TIMEOUT == 1024
PACKET_SIZE == 48

LEAP_NO_WARNING == 0
NTP_VERSION_4 == 32
MODE_CLIENT == 3
MODE_MASK == 7
MODE_SERVER == 4
PROTOCOL_MASK == 56
LEAP_MASK == 192
LEAP_ALARM_CONDITION == 192
MAX_STRATUM == 15
FRIC == 65536

\* 2208988800 and 1637244065 as uint32 digits
ERA_OFFSET0_1_JAN_1970 == <<131, 170, 126, 128>>
TEST_OFFSET == <<97, 150, 92, 161>>

DEFAULT_NTP_SERVER == "europe.pool.ntp.org"

\* the host the library is built for (ESP8266) is little-endian
LittleEndian == TRUE

\* byte offsets of the fields of struct ntp_packet
OFF_LI_VN_MODE == 0
OFF_STRATUM == 1
OFF_REFID == 12
OFF_ORG == 24
OFF_REC == 32
OFF_XMT == 40

\* errno values
NoError == "0"
EINVAL == "EINVAL"
ENETDOWN == "ENETDOWN"
EISCONN == "EISCONN"
EADDRNOTAVAIL == "EADDRNOTAVAIL"
EOVERFLOW == "EOVERFLOW"
EIO == "EIO"
EPROTONOSUPPORT == "EPROTONOSUPPORT"
EOPNOTSUPP == "EOPNOTSUPP"
ENODATA == "ENODATA"
EPFNOSUPPORT == "EPFNOSUPPORT"
EAGAIN == "EAGAIN"
EBADMSG == "EBADMSG"

----------------------------------------------------------------------------
(* Bytes and integers *)

Zeros(n) == [i \in 1..n |-> 0]

Reverse(s) == [i \in 1..Len(s) |-> s[Len(s) + 1 - i]]

\* memcpy of bytes into p at byte offset off
SetBytes(p, off, bytes) ==
    [i \in 1..Len(p) |->
        IF i > off /\ i <= off + Len(bytes) THEN bytes[i - off] ELSE p[i]]

\* object representation of an integer on the host, and back
MemOf(le, v) == IF le THEN Reverse(v) ELSE v
ValOf(le, bytes) == IF le THEN Reverse(bytes) ELSE bytes

\* htonl()/ntohl(): byte swap on a little-endian host, identity otherwise
htonl(le, v) == IF le THEN Reverse(v) ELSE v

\* a & b on bytes
RECURSIVE BitAndN(_, _, _)
BitAndN(a, b, n) ==
    IF n = 0 THEN 0
    ELSE (IF a % 2 = 1 /\ b % 2 = 1 THEN 1 ELSE 0)
         + 2 * BitAndN(a \div 2, b \div 2, n - 1)
BitAnd(a, b) == BitAndN(a, b, 8)

\* a + b on uint32 digits (modulo 2^32, as the conversion to uint32_t does)
Add32(a, b) ==
    LET s4 == a[4] + b[4]
        s3 == a[3] + b[3] + (s4 \div 256)
        s2 == a[2] + b[2] + (s3 \div 256)
        s1 == a[1] + b[1] + (s2 \div 256)
    IN  <<s1 % 256, s2 % 256, s3 % 256, s4 % 256>>

\* generateTstamp(tstamp64_t *, secs, frac) with raw = frac * FRAC
generateTstamp64(le, secs, raw) ==
    IF le THEN htonl(le, raw) \o htonl(le, secs)
    ELSE secs \o raw

\* a tstamp64_t field of the packet, read as the host reads it
Field64(le, p, off) == ValOf(le, SubSeq(p, off + 1, off + 8))

----------------------------------------------------------------------------
(* Double arithmetic (IEEE 754 binary64, round to nearest even) *)

\* A double is kept as a sign and a magnitude; the magnitude is a whole
\* number of units of 2^-64, written with DW digits of 16 bits, most
\* significant digit first (4 digits of integer part, 4 of fraction).  Every
\* double time() meets is such a number: its timestamps are below 2^32 and
\* the finest value, 1 / 1e3, is a multiple of 2^-62.
DW == 8
LIMB == 65536
MANT == 53

MZero == <<0, 0, 0, 0, 0, 0, 0, 0>>

MAdd(a, b) ==
    LET s8 == a[8] + b[8]
        s7 == a[7] + b[7] + (s8 \div LIMB)
        s6 == a[6] + b[6] + (s7 \div LIMB)
        s5 == a[5] + b[5] + (s6 \div LIMB)
        s4 == a[4] + b[4] + (s5 \div LIMB)
        s3 == a[3] + b[3] + (s4 \div LIMB)
        s2 == a[2] + b[2] + (s3 \div LIMB)
        s1 == a[1] + b[1] + (s2 \div LIMB)
    IN  <<s1 % LIMB, s2 % LIMB, s3 % LIMB, s4 % LIMB,
          s5 % LIMB, s6 % LIMB, s7 % LIMB, s8 % LIMB>>

\* a - b for a >= b
MSub(a, b) ==
    LET m8 == LIMB + a[8] - b[8]
        m7 == LIMB + a[7] - b[7] - (IF m8 < LIMB THEN 1 ELSE 0)
        m6 == LIMB + a[6] - b[6] - (IF m7 < LIMB THEN 1 ELSE 0)
        m5 == LIMB + a[5] - b[5] - (IF m6 < LIMB THEN 1 ELSE 0)
        m4 == LIMB + a[4] - b[4] - (IF m5 < LIMB THEN 1 ELSE 0)
        m3 == LIMB + a[3] - b[3] - (IF m4 < LIMB THEN 1 ELSE 0)
        m2 == LIMB + a[2] - b[2] - (IF m3 < LIMB THEN 1 ELSE 0)
        m1 == LIMB + a[1] - b[1] - (IF m2 < LIMB THEN 1 ELSE 0)
    IN  <<m1 % LIMB, m2 % LIMB, m3 % LIMB, m4 % LIMB,
          m5 % LIMB, m6 % LIMB, m7 % LIMB, m8 % LIMB>>

MLess(a, b) ==
    IF a[1] # b[1] THEN a[1] < b[1]
    ELSE IF a[2] # b[2] THEN a[2] < b[2]
    ELSE IF a[3] # b[3] THEN a[3] < b[3]
    ELSE IF a[4] # b[4] THEN a[4] < b[4]
    ELSE IF a[5] # b[5] THEN a[5] < b[5]
    ELSE IF a[6] # b[6] THEN a[6] < b[6]
    ELSE IF a[7] # b[7] THEN a[7] < b[7]
    ELSE a[8] < b[8]

\* a * k for a whole number k <= 1024
MMul(a, k) ==
    LET p8 == a[8] * k
        p7 == a[7] * k + (p8 \div LIMB)
        p6 == a[6] * k + (p7 \div LIMB)
        p5 == a[5] * k + (p6 \div LIMB)
        p4 == a[4] * k + (p5 \div LIMB)
        p3 == a[3] * k + (p4 \div LIMB)
        p2 == a[2] * k + (p3 \div LIMB)
        p1 == a[1] * k + (p2 \div LIMB)
    IN  <<p1 % LIMB, p2 % LIMB, p3 % LIMB, p4 % LIMB,
          p5 % LIMB, p6 % LIMB, p7 % LIMB, p8 % LIMB>>

\* a / 2, the lowest bit is dropped
MHalf(a) ==
    <<a[1] \div 2,
      (a[2] \div 2) + (a[1] % 2) * (LIMB \div 2),
      (a[3] \div 2) + (a[2] % 2) * (LIMB \div 2),
      (a[4] \div 2) + (a[3] % 2) * (LIMB \div 2),
      (a[5] \div 2) + (a[4] % 2) * (LIMB \div 2),
      (a[6] \div 2) + (a[5] % 2) * (LIMB \div 2),
      (a[7] \div 2) + (a[6] % 2) * (LIMB \div 2),
      (a[8] \div 2) + (a[7] % 2) * (LIMB \div 2)>>

\* a / d for a whole number 0 < d <= 1024: the quotient, rounded down, and
\* the remainder
MDivRem(a, d) ==
    LET n1 == a[1]
        n2 == (n1 % d) * LIMB + a[2]
        n3 == (n2 % d) * LIMB + a[3]
        n4 == (n3 % d) * LIMB + a[4]
        n5 == (n4 % d) * LIMB + a[5]
        n6 == (n5 % d) * LIMB + a[6]
        n7 == (n6 % d) * LIMB + a[7]
        n8 == (n7 % d) * LIMB + a[8]
    IN  [q |-> <<n1 \div d, n2 \div d, n3 \div d, n4 \div d,
                 n5 \div d, n6 \div d, n7 \div d, n8 \div d>>,
         r |-> n8 % d]
MDiv(a, d) == MDivRem(a, d).q

\* the powers of two below LIMB
Pow2 ==
    <<1, 2, 4, 8, 16, 32, 64, 128, 256, 512, 1024, 2048, 4096, 8192, 16384,
      32768>>

\* the number of bits of a digit and of a magnitude; bit 0 is the least
\* significant one
BitLen16(v) ==
    IF v >= 256
    THEN IF v >= 4096
         THEN IF v >= 16384 THEN (IF v >= 32768 THEN 16 ELSE 15)
              ELSE (IF v >= 8192 THEN 14 ELSE 13)
         ELSE IF v >= 1024 THEN (IF v >= 2048 THEN 12 ELSE 11)
              ELSE (IF v >= 512 THEN 10 ELSE 9)
    ELSE IF v >= 16
         THEN IF v >= 64 THEN (IF v >= 128 THEN 8 ELSE 7)
              ELSE (IF v >= 32 THEN 6 ELSE 5)
         ELSE IF v >= 4 THEN (IF v >= 8 THEN 4 ELSE 3)
              ELSE (IF v >= 2 THEN 2 ELSE v)
MBitLen(a) ==
    IF a[1] # 0 THEN 112 + BitLen16(a[1])
    ELSE IF a[2] # 0 THEN 96 + BitLen16(a[2])
    ELSE IF a[3] # 0 THEN 80 + BitLen16(a[3])
    ELSE IF a[4] # 0 THEN 64 + BitLen16(a[4])
    ELSE IF a[5] # 0 THEN 48 + BitLen16(a[5])
    ELSE IF a[6] # 0 THEN 32 + BitLen16(a[6])
    ELSE IF a[7] # 0 THEN 16 + BitLen16(a[7])
    ELSE BitLen16(a[8])
\* digit i of 2^b
Pow2Digit(b, i) == IF i = DW - (b \div 16) THEN Pow2[(b % 16) + 1] ELSE 0
MPow2(b) ==
    <<Pow2Digit(b, 1), Pow2Digit(b, 2), Pow2Digit(b, 3), Pow2Digit(b, 4),
      Pow2Digit(b, 5), Pow2Digit(b, 6), Pow2Digit(b, 7), Pow2Digit(b, 8)>>
MBit(a, b) == (a[DW - (b \div 16)] \div Pow2[(b % 16) + 1]) % 2
\* digit i of a with its n lowest bits cleared
ClearDigit(a, n, i) ==
    LET low == 16 * (DW - i)
    IN  IF low + 16 <= n THEN 0
        ELSE IF low >= n THEN a[i]
        ELSE (a[i] \div Pow2[n - low + 1]) * Pow2[n - low + 1]
MClearLow(a, n) ==
    <<ClearDigit(a, n, 1), ClearDigit(a, n, 2), ClearDigit(a, n, 3),
      ClearDigit(a, n, 4), ClearDigit(a, n, 5), ClearDigit(a, n, 6),
      ClearDigit(a, n, 7), ClearDigit(a, n, 8)>>

\* a rounded to MANT significant bits, to the nearest and to the even one
\* of two equally near; sticky: the exact value is a little more than a
MRound(a, sticky) ==
    LET drop == MBitLen(a) - MANT
    IN  IF drop <= 0 THEN a
        ELSE LET kept == MClearLow(a, drop)
                 rest == MSub(a, kept)
                 half == MPow2(drop - 1)
                 up == \/ MLess(half, rest)
                       \/ rest = half /\ (sticky \/ MBit(a, drop) = 1)
             IN  IF up THEN MAdd(kept, MPow2(drop)) ELSE kept

\* whole numbers as magnitudes: a uint32_t given by its 4 base-256 digits,
\* and a number below 2^31
MFromU32(d4) ==
    <<0, 0, d4[1] * 256 + d4[2], d4[3] * 256 + d4[4], 0, 0, 0, 0>>
MFromNat(n) == <<0, 0, n \div LIMB, n % LIMB, 0, 0, 0, 0>>
\* the whole part of a as a number (below 2^31), its whole and its
\* fractional part as magnitudes
MToNat(a) == a[3] * LIMB + a[4]
MWhole(a) == <<a[1], a[2], a[3], a[4], 0, 0, 0, 0>>
MFrac(a) == <<0, 0, 0, 0, a[5], a[6], a[7], a[8]>>

\* exact sums and differences of signed numbers
XNum(neg, mag) == [neg |-> neg /\ mag # MZero, mag |-> mag]
XNeg(x) == XNum(~x.neg, x.mag)
XAdd(x, y) ==
    IF x.neg = y.neg THEN XNum(x.neg, MAdd(x.mag, y.mag))
    ELSE IF MLess(x.mag, y.mag) THEN XNum(y.neg, MSub(y.mag, x.mag))
    ELSE XNum(x.neg, MSub(x.mag, y.mag))
XSub(x, y) == XAdd(x, XNeg(y))
XLess(x, y) ==
    IF x.neg /\ ~y.neg THEN TRUE
    ELSE IF ~x.neg /\ y.neg THEN FALSE
    ELSE IF x.neg THEN MLess(y.mag, x.mag)
    ELSE MLess(x.mag, y.mag)
XInt(n) ==
    IF n < 0 THEN XNum(TRUE, MFromNat(0 - n)) ELSE XNum(FALSE, MFromNat(n))

\* the operations of double arithmetic: the exact result, rounded
DAdd(x, y) == LET r == XAdd(x, y) IN XNum(r.neg, MRound(r.mag, FALSE))
DSub(x, y) == DAdd(x, XNeg(y))
DMul(x, k) == XNum(x.neg, MRound(MMul(x.mag, k), FALSE))
DHalf(x) == XNum(x.neg, MHalf(x.mag))
\* n / d for whole numbers 0 <= n < 2^31, 0 < d <= 1024
DDiv(n, d) ==
    LET qr == MDivRem(MFromNat(n), d)
    IN  XNum(FALSE, MRound(qr.q, qr.r # 0))
\* a uint32_t as a double; raw / 2^32 and raw / 2^16 for raw given by its
\* base-256 digits
DFromU32(d4) == XNum(FALSE, MFromU32(d4))
DFrac32(raw) ==
    XNum(FALSE, <<0, 0, 0, 0, raw[1] * 256 + raw[2], raw[3] * 256 + raw[4],
                  0, 0>>)
DFrac16(raw) == XNum(FALSE, <<0, 0, 0, 0, raw[1] * 256 + raw[2], 0, 0, 0>>)
\* the first 2 and the first 4 base-256 digits of the fraction of x
FracDigits16(x) == <<x.mag[5] \div 256, x.mag[5] % 256>>
FracDigits32(x) ==
    <<x.mag[5] \div 256, x.mag[5] % 256, x.mag[6] \div 256, x.mag[6] % 256>>

----------------------------------------------------------------------------
(* NTPMessageTransport: the timestamp codec *)

\* A fraction of a second handed to generateTstamp() is the rational n / d
\* with 0 <= n < d <= MaxDenominator; a fraction returned by getFraction()
\* is the integer it divides by FRIC (by FRAC), as digits.

\* htons()/ntohs()
htons(le, v) == IF le THEN Reverse(v) ELSE v

\* uint16_t raw = fric * FRIC: fric is the double n / d, the product is
\* exact and the conversion truncates
FricRaw(n, d) == FracDigits16(DDiv(n, d))

\* uint32_t raw = frac * FRAC (FRAC = FRIC * FRIC)
FracRaw(n, d) == FracDigits32(DDiv(n, d))

generateTstamp32_SecondsLow(le, secs, raw) ==
    IF le THEN htons(le, raw) \o htons(le, secs)
    ELSE raw \o secs

\* generateTstamp(tstamp32_t *, secs, fric) with raw = fric * FRIC
generateTstamp32(le, secs, raw) ==
    IF le THEN htons(le, raw) \o htons(le, secs)
    ELSE secs \o raw

\* getSeconds(const tstamp32_t &)
getSeconds32(le, ts) ==
    IF le THEN htons(le, SubSeq(ts, 3, 4))
    ELSE SubSeq(ts, 3, 4)

\* getSeconds(const tstamp64_t &)
getSeconds64(le, ts) ==
    IF le THEN htonl(le, SubSeq(ts, 5, 8))
    ELSE SubSeq(ts, 5, 8)

\* getFraction(const tstamp32_t &): the value returned is this over FRIC
getFraction32(le, ts) ==
    IF le THEN htons(le, SubSeq(ts, 1, 2))
    ELSE SubSeq(ts, 3, 4)

\* getFraction(const tstamp64_t &): the value returned is this over FRAC
getFraction64(le, ts) ==
    IF le THEN htonl(le, SubSeq(ts, 1, 4))
    ELSE SubSeq(ts, 5, 8)

----------------------------------------------------------------------------
(* NTPClient::time(): the arithmetic on double values *)

\* 1e3
MS == 1000

\* getSeconds(ts) + getFraction(ts), line 96
TstampD(le, ts) ==
    DAdd(DFromU32(getSeconds64(le, ts)), DFrac32(getFraction64(le, ts)))

\* t4d = t1d + millis_delta / 1e3 (line 95)
T4d(t1d, millis_delta) == DAdd(t1d, DDiv(millis_delta, MS))

ModfInt_Floor(x) ==
    IF x.neg /\ MFrac(x.mag) # MZero
    THEN XNum(TRUE, MAdd(MWhole(x.mag), MFromNat(1)))
    ELSE XNum(x.neg, MWhole(x.mag))

\* modf(x, &intpart): intpart is x rounded towards zero, the result is
\* x - intpart (negative for a negative x)
ModfInt(x) == XNum(x.neg, MWhole(x.mag))
ModfFrac(x) == XNum(x.neg, MFrac(x.mag))

\* (time_t)x for a whole x
TimeT(x) == IF x.neg THEN 0 - MToNat(x.mag) ELSE MToNat(x.mag)

\* roundtrip_delay = (t4d - t1d) - (t3d - t2d)
RoundtripDelay(t1d, t2d, t3d, t4d) ==
    DSub(DSub(t4d, t1d), DSub(t3d, t2d))

ClockOffset_NoHalf(t1d, t2d, t3d, t4d) ==
    DAdd(DSub(t2d, t1d), DSub(t3d, t4d))

\* clock_offset = ((t2d - t1d) + (t3d - t4d)) / 2.0
ClockOffset(t1d, t2d, t3d, t4d) ==
    DHalf(DAdd(DSub(t2d, t1d), DSub(t3d, t4d)))

\* unix_time_d = 1.0 + clock_offset + ntp_time - ERA_OFFSET0_1_JAN_1970
\*               + (millis() - millis_start) / 1e3, summed from the left
UnixTimeD(clock_offset, ntp_time, elapsed) ==
    DAdd(DSub(DAdd(DAdd(XInt(1), clock_offset), DFromU32(ntp_time)),
              DFromU32(ERA_OFFSET0_1_JAN_1970)),
         DDiv(elapsed, MS))

\* sync_ms_delay = 1e3 - modf(unix_time_d, &unix_time_d_intpart) * 1e3,
\* converted to uint_least32_t (the conversion truncates)
SyncMsDelay(x) == MToNat(DSub(XInt(MS), DMul(ModfFrac(x), MS)).mag)

----------------------------------------------------------------------------
(* NTPClient::on_wire_exchange: request construction and reply validation *)

\* BuildRequest without the memset of line 184
BuildRequest_NoMemset(le, p) ==
    SetBytes(p, OFF_LI_VN_MODE,
             <<LEAP_NO_WARNING + NTP_VERSION_4 + MODE_CLIENT>>)

\* lines 183-186: save xmt, memset the packet, set li_vn_mode, restore xmt
BuildRequest(le, p) ==
    LET bak == Field64(le, p, OFF_XMT)
        p0  == Zeros(PACKET_SIZE)
        p1  == SetBytes(p0, OFF_LI_VN_MODE,
                        <<LEAP_NO_WARNING + NTP_VERSION_4 + MODE_CLIENT>>)
    IN  SetBytes(p1, OFF_XMT, MemOf(le, bak))

\* OnWireValidate with the version check before the mode check
OnWireValidate_VersionFirst(le, p, bak) ==
    IF BitAnd(p[OFF_LI_VN_MODE + 1], PROTOCOL_MASK) # NTP_VERSION_4
        THEN [ok |-> FALSE, errno |-> EPROTONOSUPPORT, site |-> "version"]
    ELSE IF BitAnd(p[OFF_LI_VN_MODE + 1], MODE_MASK) # MODE_SERVER
        THEN [ok |-> FALSE, errno |-> EOPNOTSUPP, site |-> "mode"]
    ELSE IF BitAnd(p[OFF_LI_VN_MODE + 1], LEAP_MASK) = LEAP_ALARM_CONDITION
        THEN [ok |-> FALSE, errno |-> ENODATA, site |-> "leap"]
    ELSE IF p[OFF_STRATUM + 1] > MAX_STRATUM
        THEN [ok |-> FALSE, errno |-> EPFNOSUPPORT, site |-> "stratum_reserved"]
    ELSE IF p[OFF_STRATUM + 1] = 0
        THEN [ok |-> FALSE, errno |-> EAGAIN, site |-> "stratum_zero"]
    ELSE IF bak # Field64(le, p, OFF_ORG)
        THEN [ok |-> FALSE, errno |-> EBADMSG, site |-> "origin"]
    ELSE [ok |-> TRUE, errno |-> NoError, site |-> "none"]

\* OnWireValidate without the originate check of lines 242-249
OnWireValidate_NoOrigin(le, p, bak) ==
    IF BitAnd(p[OFF_LI_VN_MODE + 1], MODE_MASK) # MODE_SERVER
        THEN [ok |-> FALSE, errno |-> EOPNOTSUPP, site |-> "mode"]
    ELSE IF BitAnd(p[OFF_LI_VN_MODE + 1], PROTOCOL_MASK) # NTP_VERSION_4
        THEN [ok |-> FALSE, errno |-> EPROTONOSUPPORT, site |-> "version"]
    ELSE IF BitAnd(p[OFF_LI_VN_MODE + 1], LEAP_MASK) = LEAP_ALARM_CONDITION
        THEN [ok |-> FALSE, errno |-> ENODATA, site |-> "leap"]
    ELSE IF p[OFF_STRATUM + 1] > MAX_STRATUM
        THEN [ok |-> FALSE, errno |-> EPFNOSUPPORT, site |-> "stratum_reserved"]
    ELSE IF p[OFF_STRATUM + 1] = 0
        THEN [ok |-> FALSE, errno |-> EAGAIN, site |-> "stratum_zero"]
    ELSE [ok |-> TRUE, errno |-> NoError, site |-> "none"]

\* OnWireValidate with the stratum-0 check after the originate check
OnWireValidate_OriginBeforeZero(le, p, bak) ==
    IF BitAnd(p[OFF_LI_VN_MODE + 1], MODE_MASK) # MODE_SERVER
        THEN [ok |-> FALSE, errno |-> EOPNOTSUPP, site |-> "mode"]
    ELSE IF BitAnd(p[OFF_LI_VN_MODE + 1], PROTOCOL_MASK) # NTP_VERSION_4
        THEN [ok |-> FALSE, errno |-> EPROTONOSUPPORT, site |-> "version"]
    ELSE IF BitAnd(p[OFF_LI_VN_MODE + 1], LEAP_MASK) = LEAP_ALARM_CONDITION
        THEN [ok |-> FALSE, errno |-> ENODATA, site |-> "leap"]
    ELSE IF p[OFF_STRATUM + 1] > MAX_STRATUM
        THEN [ok |-> FALSE, errno |-> EPFNOSUPPORT, site |-> "stratum_reserved"]
    ELSE IF bak # Field64(le, p, OFF_ORG)
        THEN [ok |-> FALSE, errno |-> EBADMSG, site |-> "origin"]
    ELSE IF p[OFF_STRATUM + 1] = 0
        THEN [ok |-> FALSE, errno |-> EAGAIN, site |-> "stratum_zero"]
    ELSE [ok |-> TRUE, errno |-> NoError, site |-> "none"]

\* the checks without the stratum-0 check of lines 233-240
OnWireValidate_AcceptStratumZero(le, p, bak) ==
    IF BitAnd(p[OFF_LI_VN_MODE + 1], MODE_MASK) # MODE_SERVER
        THEN [ok |-> FALSE, errno |-> EOPNOTSUPP, site |-> "mode"]
    ELSE IF BitAnd(p[OFF_LI_VN_MODE + 1], PROTOCOL_MASK) # NTP_VERSION_4
        THEN [ok |-> FALSE, errno |-> EPROTONOSUPPORT, site |-> "version"]
    ELSE IF BitAnd(p[OFF_LI_VN_MODE + 1], LEAP_MASK) = LEAP_ALARM_CONDITION
        THEN [ok |-> FALSE, errno |-> ENODATA, site |-> "leap"]
    ELSE IF p[OFF_STRATUM + 1] > MAX_STRATUM
        THEN [ok |-> FALSE, errno |-> EPFNOSUPPORT, site |-> "stratum_reserved"]
    ELSE IF bak # Field64(le, p, OFF_ORG)
        THEN [ok |-> FALSE, errno |-> EBADMSG, site |-> "origin"]
    ELSE [ok |-> TRUE, errno |-> NoError, site |-> "none"]

\* lines 196-250: the checks on the reply, in the order of the code.
\* The result names the return statement taken and the errno it sets.
OnWireValidate(le, p, bak) ==
    IF BitAnd(p[OFF_LI_VN_MODE + 1], MODE_MASK) # MODE_SERVER
        THEN [ok |-> FALSE, errno |-> EOPNOTSUPP, site |-> "mode"]
    ELSE IF BitAnd(p[OFF_LI_VN_MODE + 1], PROTOCOL_MASK) # NTP_VERSION_4
        THEN [ok |-> FALSE, errno |-> EPROTONOSUPPORT, site |-> "version"]
    ELSE IF BitAnd(p[OFF_LI_VN_MODE + 1], LEAP_MASK) = LEAP_ALARM_CONDITION
        THEN [ok |-> FALSE, errno |-> ENODATA, site |-> "leap"]
    ELSE IF p[OFF_STRATUM + 1] > MAX_STRATUM
        THEN [ok |-> FALSE, errno |-> EPFNOSUPPORT, site |-> "stratum_reserved"]
    ELSE IF p[OFF_STRATUM + 1] = 0
        THEN [ok |-> FALSE, errno |-> EAGAIN, site |-> "stratum_zero"]
    ELSE IF bak # Field64(le, p, OFF_ORG)
        THEN [ok |-> FALSE, errno |-> EBADMSG, site |-> "origin"]
    ELSE [ok |-> TRUE, errno |-> NoError, site |-> "none"]

----------------------------------------------------------------------------
(* NTPMessageTransport *)

\* net_provider without the shortcut of lines 222-225: it binds on every call
net_provider_Rebind(port, connected, beginOk) ==
    IF ~connected
        THEN [ok |-> FALSE, errno |-> ENETDOWN, site |-> "netdown",
              port |-> port, ev |-> {"status"}, bound |-> FALSE]
    ELSE IF beginOk
        THEN [ok |-> TRUE, errno |-> NoError, site |-> "none",
              port |-> UDP_LOCAL_PORT, ev |-> {"status", "bind"},
              bound |-> TRUE]
    ELSE [ok |-> FALSE, errno |-> EISCONN, site |-> "bind",
          port |-> 0, ev |-> {"status", "bind"}, bound |-> FALSE]

\* net_provider(): port is _datagram.localPort(); connected and beginOk are
\* the answers of WiFi.status() and of _datagram.begin(UDP_LOCAL_PORT).
net_provider(port, connected, beginOk) ==
    IF ~connected
        THEN [ok |-> FALSE, errno |-> ENETDOWN, site |-> "netdown",
              port |-> port, ev |-> {"status"}, bound |-> FALSE]
    ELSE IF port = UDP_LOCAL_PORT
        THEN [ok |-> TRUE, errno |-> NoError, site |-> "none",
              port |-> port, ev |-> {"status", "reuse"}, bound |-> FALSE]
    ELSE IF port = 0
        THEN IF beginOk
             THEN [ok |-> TRUE, errno |-> NoError, site |-> "none",
                   port |-> UDP_LOCAL_PORT, ev |-> {"status", "bind"},
                   bound |-> TRUE]
             ELSE [ok |-> FALSE, errno |-> EISCONN, site |-> "bind",
                   port |-> port, ev |-> {"status", "bind"}, bound |-> FALSE]
    ELSE [ok |-> FALSE, errno |-> EISCONN, site |-> "bind",
          port |-> port, ev |-> {"status"}, bound |-> FALSE]

\* send_server_request without the early return of line 253: it writes and
\* finalizes after a failed beginPacket()
send_server_request_NoReturn(p, resolved, written, ended) ==
    IF ~resolved
        THEN [ok |-> FALSE, errno |-> EADDRNOTAVAIL, site |-> "resolve",
              ev |-> {"resolve", "write", "finalize"}, sent |-> <<>>]
    ELSE IF written # PACKET_SIZE
        THEN [ok |-> FALSE, errno |-> EOVERFLOW, site |-> "write",
              ev |-> {"resolve", "write"}, sent |-> <<>>]
    ELSE IF ~ended
        THEN [ok |-> FALSE, errno |-> EIO, site |-> "finalize",
              ev |-> {"resolve", "write", "finalize"}, sent |-> <<>>]
    ELSE [ok |-> TRUE, errno |-> NoError, site |-> "none",
          ev |-> {"resolve", "write", "finalize"}, sent |-> p]

\* send_server_request(): resolved, written and ended are the answers of
\* _datagram.beginPacket(), _datagram.write() and _datagram.endPacket().
send_server_request(p, resolved, written, ended) ==
    IF ~resolved
        THEN [ok |-> FALSE, errno |-> EADDRNOTAVAIL, site |-> "resolve",
              ev |-> {"resolve"}, sent |-> <<>>]
    ELSE IF written # PACKET_SIZE
        THEN [ok |-> FALSE, errno |-> EOVERFLOW, site |-> "write",
              ev |-> {"resolve", "write"}, sent |-> <<>>]
    ELSE IF ~ended
        THEN [ok |-> FALSE, errno |-> EIO, site |-> "finalize",
              ev |-> {"resolve", "write", "finalize"}, sent |-> <<>>]
    ELSE [ok |-> TRUE, errno |-> NoError, site |-> "none",
          ev |-> {"resolve", "write", "finalize"}, sent |-> p]

\* the loop condition that gives up one turn early
LoopContinues_Early(cycles, limit) == cycles + 1 < limit

\* the loop condition with <= for <
LoopContinues_OffByOne(cycles, limit) == cycles <= limit

\* receive_server_reply(), line 288: the loop condition after ++ms_cycles
LoopContinues(cycles, limit) == cycles < limit

\* the size check that only rejects an empty result
TooSmall_OnlyEmpty(size) == size < 1

\* receive_server_reply(), line 290: the datagram is too small to be valid
TooSmall(size) == size < PACKET_SIZE

\* _datagram.read(buf, n): the first bytes of the datagram overwrite buf
ReadInto(buf, dgram, n) ==
    LET k == IF n < Len(dgram) THEN n ELSE Len(dgram)
    IN  SetBytes(buf, 0, SubSeq(dgram, 1, k))

flush_Keep(left) == left

\* _datagram.flush() after the read (line 303).  WiFiUDP is not part of
\* the sources; its effect is taken from section 4.2 of the specification
\* ("discard any remainder of that datagram"): no byte of the current
\* datagram is left to read
flush(left) == 0

\* kod_table of printKissCode(): ACST AUTH AUTO BCST CRYP DENY DROP RSTR
\* INIT MCST NKEY RATE RMOT STEP
kod_table ==
    {<<65, 67, 83, 84>>, <<65, 85, 84, 72>>, <<65, 85, 84, 79>>,
     <<66, 67, 83, 84>>, <<67, 82, 89, 80>>, <<68, 69, 78, 89>>,
     <<68, 82, 79, 80>>, <<82, 83, 84, 82>>, <<73, 78, 73, 84>>,
     <<77, 67, 83, 84>>, <<78, 75, 69, 89>>, <<82, 65, 84, 69>>,
     <<82, 77, 79, 84>>, <<83, 84, 69, 80>>}

\* the C string that starts at the first byte of mem: the bytes before the
\* first 0
RECURSIVE CStr(_)
CStr(mem) ==
    IF mem = <<>> \/ Head(mem) = 0 THEN <<>>
    ELSE <<Head(mem)>> \o CStr(Tail(mem))

\* printKissCode(code), lines 53-66: strcmp() of the string at code with
\* every entry of the table; the result is valid_code
printKissCode(mem) == \E i \in kod_table : CStr(mem) = i

----------------------------------------------------------------------------
(* The environment: what the server and the network may deliver *)

\* li_vn_mode bytes: (LI 0, VN 4, server), (LI 0, VN 4, client),
\* (LI 0, VN 3, server), (LI 0, VN 3, client), (alarm, VN 4, server),
\* (alarm, VN 4, client), (alarm, VN 3, server)
LvmVals == {36, 35, 28, 27, 228, 227, 220}

StratumVals == {0, 1, 15, 16, 255}

\* "DENY" (in the kiss-code table) and "XXXX" (not in it)
RefIds == {<<68, 69, 78, 89>>, <<88, 88, 88, 88>>}

\* sizes parsePacket() may report for an arrived datagram
DatagramSizes == {1, 47, 48, 68}

\* the polls at which a datagram may arrive: any poll of a short budget;
\* the first, the second and the last poll of a long one; the first poll
\* on the network "plain"
ArrivalPolls(limit) ==
    IF net = "plain" THEN {1}
    ELSE IF limit <= MaxTimeout THEN 1..limit ELSE {1, 2, limit}

\* what write() may report as the number of bytes taken
WrittenVals == {24, 48}

\* what read() may report as the number of bytes copied
ReadVals == {0, 48}

\* what the packet buffer may hold before time() assigns xmt
JunkPackets == {[i \in 1..PACKET_SIZE |-> 255], [i \in 1..PACKET_SIZE |-> i]}

\* server receive and transmit timestamps of a reply, as sent on the wire:
\* half and three quarters of a second after the second of T1
ServerRec == <<229, 64, 219, 33, 128, 0, 0, 0>>
ServerXmt == <<229, 64, 219, 33, 192, 0, 0, 0>>

\* the pairs of receive and transmit timestamps a server may send:
\* the pair above; one and a half seconds before 1 January 1970 (twice);
\* 1/128 s and 3/128 s into the second after T1; 150994944 s ahead of T1
ServerStamps ==
    {[rec |-> ServerRec, xmt |-> ServerXmt],
     [rec |-> <<131, 170, 126, 125, 128, 0, 0, 0>>,
      xmt |-> <<131, 170, 126, 125, 128, 0, 0, 0>>],
     [rec |-> <<229, 64, 219, 34, 2, 0, 0, 0>>,
      xmt |-> <<229, 64, 219, 34, 6, 0, 0, 0>>],
     [rec |-> <<238, 64, 219, 33, 0, 0, 0, 0>>,
      xmt |-> <<238, 64, 219, 33, 64, 0, 0, 0>>]}

\* the reference id and the timestamps of a reply in which the code does
\* not look at them
DefaultRefId == <<68, 69, 78, 89>>
DefaultStamps == [rec |-> ServerRec, xmt |-> ServerXmt]

\* milliseconds millis() may advance during the exchange (lines 78-84) and
\* between the offset step and the computation of unix_time_d (85-119)
MillisDeltas == {0, 1, 250, 1024}
ElapsedVals == {0, 3}

\* the bytes that follow the 48 bytes of a packet in a longer datagram
Trailer == [i \in 1..(68 - PACKET_SIZE) |-> 170]

\* the transmit timestamp bytes of a request datagram
XmtBytes(req) == SubSeq(req, OFF_XMT + 1, OFF_XMT + 8)

\* the bit pattern next to b (b + 1 on the last byte)
PlusOne(b) == [i \in 1..Len(b) |-> IF i = Len(b) THEN (b[i] + 1) % 256 ELSE b[i]]

\* originate fields a datagram may carry: the echo of this call's request,
\* the echo of an earlier call's request, or something else
OrgChoices(cur, old) ==
    {[tag |-> "fresh", org |-> XmtBytes(cur)]}
    \cup (IF old = <<>> THEN {} ELSE {[tag |-> "stale", org |-> XmtBytes(old)]})
    \cup {[tag |-> "forged", org |-> PlusOne(XmtBytes(cur))],
          [tag |-> "forged", org |-> Zeros(8)]}

\* a datagram of the given size with the given header fields
Datagram(size, lvm, stratum, refid, org, stamps) ==
    LET full == <<lvm, stratum, 0, 0>> \o Zeros(8) \o refid \o Zeros(8)
                \o org \o stamps.rec \o stamps.xmt \o Trailer
    IN  SubSeq(full, 1, size)

\* on_wire_exchange(), line 237, hands printKissCode() the VALUE of
\* packet->refid converted to a pointer.  What the lookup reads is the
\* memory at that address: any of these strings, or the read faults.
WildMemory ==
    {<<0>>, <<68, 69, 78, 89, 0>>, <<88, 88, 88, 88, 0>>,
     <<68, 69, 78, 89, 90, 0>>}

\* the answers of the environment: any element of S in a run on the network
\* "any"; on the network "plain" only d, the answer of a network that is up,
\* takes the request and delivers a well-formed reply, if it delivers one
Pick(S, d) == IF net = "plain" THEN {d} ELSE S

\* host names the application may configure
Names == {"time.example.org", "ntp.example.net"}

----------------------------------------------------------------------------
(* State machine *)

\* time()'s locals of lines 84-123 before they are computed
NoCalc ==
    [millis_delta |-> 0, elapsed |-> 0, roundtrip_delay |-> XInt(0),
     clock_offset |-> XInt(0), unix_time_d |-> XInt(0), sync_ms_delay |-> 0]

\* no host has been handed to beginPacket() in this call
NoHost == "(none)"

\* the codec and the offset computation are not exercised
NoCodec ==
    [step |-> "off", le |-> TRUE, wide |-> TRUE, secs |-> <<>>, n |-> 0,
     d |-> 1, ts |-> <<>>, seconds |-> <<>>, fraction |-> <<>>]
NoOnWire ==
    [step |-> "off", t1d |-> XInt(0), t2d |-> XInt(0), t3d |-> XInt(0),
     t4d |-> XInt(0), roundtrip_delay |-> XInt(0), clock_offset |-> XInt(0)]

\* the client after construction, before any call
IdleProgram ==
    /\ pc = "idle"
    /\ packet = Zeros(PACKET_SIZE)
    /\ t1 = Zeros(8)
    /\ xmt_bak = Zeros(8)
    /\ timeout = 0
    /\ ms_cycles = 0
    /\ rply_size = 0
    /\ errno = NoError
    /\ localPort = 0
    /\ ret = "none"
    /\ wire = <<>>
    /\ oldReq = <<>>
    /\ polls = 0
    /\ rtag = "none"
    /\ ran = {}
    /\ cause = "none"
    /\ bindOk = 0
    /\ sends = 0
    /\ taken = 0
    /\ yields = 0
    /\ rxLeft = 0
    /\ readFrom = <<>>
    /\ kiss = "none"
    /\ tloc = FALSE
    /\ slot = 0
    /\ stored = FALSE
    /\ retval = 0
    /\ calc = NoCalc
    /\ serverName = ""
    /\ sentTo = NoHost
    /\ configured = <<>>

Init ==
    /\ IdleProgram
    /\ codec = NoCodec
    /\ onwire = NoOnWire
    /\ net = "any"

Fail_Retry(e, site) ==
    /\ pc' = "avail"
    /\ errno' = e
    /\ cause' = site

\* a return statement that sets errno was taken
Fail(e, site) ==
    /\ pc' = "failed"
    /\ errno' = e
    /\ cause' = site

BeginName_KeepOnNull(null, name, current) ==
    IF null THEN current ELSE name

\* the name begin() hands to _ntp.setServerName(), lines 29-32
BeginName(null, name, current) ==
    IF null THEN DEFAULT_NTP_SERVER ELSE name

\* NTPClient::begin(ntp_server_name), lines 27-33
Begin ==
    /\ pc = "idle"
    /\ Len(configured) < MaxConfigCalls
    /\ \E null \in BOOLEAN, name \in Names :
         /\ serverName' = BeginName(null, name, serverName)
         /\ configured' = Append(configured,
                [op |-> "begin", null |-> null, name |-> name])
    /\ UNCHANGED <<pc, packet, t1, xmt_bak, timeout, ms_cycles, rply_size,
                   errno, localPort, ret, wire, oldReq, polls, rtag, ran,
                   cause, bindOk, sends, taken, yields, rxLeft, readFrom,
                   kiss, tloc, slot, stored, retval, calc, sentTo, codec,
                   onwire, net>>

\* NTPClient::setServerName(ntp_server_name), lines 40-49
SetServerName ==
    /\ pc = "idle"
    /\ Len(configured) < MaxConfigCalls
    /\ \E null \in BOOLEAN, name \in Names :
         /\ IF null
            THEN /\ errno' = EINVAL
                 /\ cause' = "nullname"
                 /\ serverName' = serverName
            ELSE /\ serverName' = name
                 /\ UNCHANGED <<errno, cause>>
         /\ configured' = Append(configured,
                [op |-> "set", null |-> null, name |-> name])
    /\ UNCHANGED <<pc, packet, t1, xmt_bak, timeout, ms_cycles, rply_size,
                   localPort, ret, wire, oldReq, polls, rtag, ran, bindOk,
                   sends, taken, yields, rxLeft, readFrom, kiss, tloc, slot,
                   stored, retval, calc, sentTo, codec, onwire, net>>

\* time(tloc), lines 58-78: t1 from the fixed ntp_time with fraction 0, the
\* local packet holds whatever the stack held, then packet.xmt = t1
TimeCall ==
    /\ pc = "idle"
    /\ \E junk \in Pick(JunkPackets, [i \in 1..PACKET_SIZE |-> 255]) :
         LET ntp_time == Add32(ERA_OFFSET0_1_JAN_1970, TEST_OFFSET)
             ts == generateTstamp64(LittleEndian, ntp_time, FracRaw(0, 1))
         IN  /\ t1' = ts
             /\ packet' = SetBytes(junk, OFF_XMT, MemOf(LittleEndian, ts))
    /\ tloc' \in BOOLEAN
    /\ slot' = 0
    /\ stored' = FALSE
    /\ retval' = 0
    /\ calc' = NoCalc
    /\ pc' = "called"
    /\ oldReq' = IF wire # <<>> THEN wire ELSE oldReq
    /\ wire' = <<>>
    /\ ran' = {}
    /\ ret' = "none"
    /\ rtag' = "none"
    /\ xmt_bak' = Zeros(8)
    /\ timeout' = 0
    /\ ms_cycles' = 0
    /\ rply_size' = 0
    /\ polls' = 0
    /\ sends' = 0
    /\ taken' = 0
    /\ yields' = 0
    /\ readFrom' = <<>>
    /\ kiss' = "none"
    /\ sentTo' = NoHost
    /\ UNCHANGED <<errno, localPort, cause, bindOk, rxLeft, serverName,
                   configured, codec, onwire, net>>

\* on_wire_exchange(), lines 176-190: assemble the request and call
\* packetExchange(packet, TIMEOUT)
OnWireRequest ==
    /\ pc = "called"
    /\ xmt_bak' = Field64(LittleEndian, packet, OFF_XMT)
    /\ packet' = BuildRequest(LittleEndian, packet)
    /\ timeout' = TIMEOUT
    /\ pc' = "built"
    /\ UNCHANGED <<t1, ms_cycles, rply_size, errno, localPort, ret, wire,
                   oldReq, polls, rtag, ran, cause, bindOk, sends, taken,
                   yields, rxLeft, readFrom, kiss, tloc, slot, stored,
                   retval, calc, serverName, sentTo, configured, codec,
                   onwire, net>>

\* packetExchange(), lines 88-99: the check of the arguments (the packet
\* is never null here, time() passes the address of its local), then
\* net_provider()
NetProvider ==
    /\ pc = "built"
    /\ IF timeout = 0
       THEN /\ Fail(EINVAL, "badarg")
            /\ UNCHANGED <<ran, localPort, bindOk>>
       ELSE \E connected \in Pick(BOOLEAN, TRUE),
               beginOk \in Pick(BOOLEAN, TRUE) :
              LET r == net_provider(localPort, connected, beginOk)
              IN  /\ ran' = ran \cup r.ev
                  /\ localPort' = r.port
                  /\ bindOk' = IF r.bound /\ bindOk < MaxBinds
                               THEN bindOk + 1 ELSE bindOk
                  /\ IF r.ok
                     THEN pc' = "avail" /\ UNCHANGED <<errno, cause>>
                     ELSE Fail(r.errno, r.site)
    /\ UNCHANGED <<packet, t1, xmt_bak, timeout, ms_cycles, rply_size, ret,
                   wire, oldReq, polls, rtag, sends, taken, yields, rxLeft,
                   readFrom, kiss, tloc, slot, stored, retval, calc,
                   serverName, sentTo, configured, codec, onwire, net>>

\* packetExchange(), lines 100-104: send_server_request(); the host handed
\* to beginPacket() is serverName()
SendRequest ==
    /\ pc = "avail"
    /\ \E resolved \in Pick(BOOLEAN, TRUE),
          written \in Pick(WrittenVals, PACKET_SIZE),
          ended \in Pick(BOOLEAN, TRUE) :
         LET r == send_server_request(packet, resolved, written, ended)
         IN  /\ ran' = ran \cup r.ev
             /\ wire' = r.sent
             /\ sends' = IF r.sent # <<>> /\ sends < MaxSends
                         THEN sends + 1 ELSE sends
             /\ IF r.ok
                THEN pc' = "recv" /\ UNCHANGED <<errno, cause>>
                ELSE Fail(r.errno, r.site)
    /\ sentTo' = serverName
    /\ ms_cycles' = 0
    /\ rply_size' = 0
    /\ UNCHANGED <<packet, t1, xmt_bak, timeout, localPort, ret, oldReq,
                   polls, rtag, bindOk, taken, yields, rxLeft, readFrom,
                   kiss, tloc, slot, stored, retval, calc, serverName,
                   configured, codec, onwire, net>>

\* receive_server_reply(), lines 272-287: the check of the arguments
\* before the first turn, then parsePacket() of one turn of the polling
\* loop, which moves the socket to the next datagram, if there is one.
\* A poll that found none enters delay(1UL), where the code is suspended.
Poll ==
    /\ pc = "recv"
    /\ IF timeout = 0
       THEN /\ Fail(EINVAL, "badarg")
            /\ UNCHANGED <<rply_size, rxLeft, polls, ran, ms_cycles, yields,
                           taken>>
       ELSE \E size \in {0} \cup Pick(DatagramSizes, PACKET_SIZE) :
              /\ size # 0 => polls + 1 \in ArrivalPolls(timeout)
              /\ rply_size' = size
              /\ rxLeft' = size
              /\ polls' = polls + 1
              /\ ran' = ran \cup {"poll"}
              /\ IF size # 0
                 THEN /\ ms_cycles' = ms_cycles
                      /\ yields' = yields
                      /\ taken' = IF taken < MaxSends
                                  THEN taken + 1 ELSE taken
                      /\ pc' = "polled"
                 ELSE /\ ms_cycles' = ms_cycles
                      /\ yields' = yields + 1
                      /\ taken' = taken
                      /\ pc' = "yielding"
              /\ UNCHANGED <<errno, cause>>
    /\ UNCHANGED <<packet, t1, xmt_bak, timeout, localPort, ret, wire,
                   oldReq, rtag, bindOk, sends, readFrom, kiss, tloc,
                   slot, stored, retval, calc, serverName, sentTo,
                   configured, codec, onwire, net>>

\* receive_server_reply(), lines 287-288: delay(1UL) returns, ms_cycles is
\* incremented and the loop goes on or ends
LoopTest ==
    /\ pc = "yielding"
    /\ ms_cycles' = ms_cycles + 1
    /\ pc' = IF LoopContinues(ms_cycles + 1, timeout) THEN "recv" ELSE "polled"
    /\ UNCHANGED <<packet, t1, xmt_bak, timeout, rply_size, errno, localPort,
                   ret, wire, oldReq, polls, rtag, ran, cause, bindOk, sends,
                   taken, yields, rxLeft, readFrom, kiss, tloc, slot, stored,
                   retval, calc, serverName, sentTo, configured, codec,
                   onwire, net>>

\* receive_server_reply(), lines 290-295: the size check after the loop
SizeCheck ==
    /\ pc = "polled"
    /\ IF TooSmall(rply_size)
       THEN Fail(EPROTONOSUPPORT, "tooshort")
       ELSE pc' = "reading" /\ UNCHANGED <<errno, cause>>
    /\ UNCHANGED <<packet, t1, xmt_bak, timeout, ms_cycles, rply_size,
                   localPort, ret, wire, oldReq, polls, rtag, ran, bindOk,
                   sends, taken, yields, rxLeft,
                   readFrom, kiss, tloc, slot, stored, retval, calc,
                   serverName, sentTo, configured, codec, onwire, net>>

\* receive_server_reply(), lines 296-304: read the packet, flush the rest;
\* the datagram's content and the answer of _datagram.read() are chosen
\* here.  The reference id varies in replies of stratum 0 and the server's
\* timestamps vary in replies with a valid header; the other replies carry
\* the first choice of them.
ReadReply ==
    /\ pc = "reading"
    /\ \E lvm \in Pick(LvmVals, 36), st \in Pick(StratumVals, 1),
          refid \in Pick(RefIds, DefaultRefId),
          o \in Pick(OrgChoices(wire, oldReq),
                     [tag |-> "fresh", org |-> XmtBytes(wire)]),
          stamps \in Pick(ServerStamps, DefaultStamps),
          n \in Pick(ReadVals, PACKET_SIZE) :
         LET d == Datagram(rply_size, lvm, st, refid, o.org, stamps)
         IN  /\ st # 0 => refid = DefaultRefId
             /\ ~(lvm = 36 /\ st \in 1..MAX_STRATUM)
                  => stamps = DefaultStamps
             /\ packet' = ReadInto(packet, d, n)
             /\ rtag' = o.tag
             /\ IF n # PACKET_SIZE
                THEN /\ Fail(EOVERFLOW, "readfail")
                     /\ rxLeft' = rply_size - n
                     /\ readFrom' = <<>>
                ELSE /\ pc' = "received"
                     /\ rxLeft' = flush(rply_size - n)
                     /\ readFrom' = d
                     /\ UNCHANGED <<errno, cause>>
    /\ ran' = ran \cup {"read"}
    /\ UNCHANGED <<t1, xmt_bak, timeout, ms_cycles, rply_size, localPort, ret,
                   wire, oldReq, polls, bindOk, sends, taken, yields, kiss,
                   tloc, slot, stored, retval, calc, serverName, sentTo,
                   configured, codec, onwire, net>>

\* on_wire_exchange(), lines 196-250: validate the reply.  The stratum-0
\* branch (lines 233-240) calls printKissCode() before it sets errno; the
\* lookup reads through the pointer made from packet->refid, which either
\* faults (the program stops) or finds some string m.
ValidateReply ==
    /\ pc = "received"
    /\ LET r == OnWireValidate(LittleEndian, packet, xmt_bak)
       IN  IF r.site = "stratum_zero"
           THEN \E fault \in BOOLEAN, m \in WildMemory :
                  IF fault
                  THEN /\ pc' = "crashed"
                       /\ kiss' = "none"
                       /\ UNCHANGED <<errno, cause>>
                  ELSE /\ kiss' = IF printKissCode(m)
                                  THEN "known" ELSE "unknown"
                       /\ Fail(r.errno, r.site)
           ELSE /\ kiss' = kiss
                /\ IF r.ok
                   THEN pc' = "valid" /\ UNCHANGED <<errno, cause>>
                   ELSE Fail(r.errno, r.site)
    /\ ran' = ran \cup {"validate"}
    /\ UNCHANGED <<packet, t1, xmt_bak, timeout, ms_cycles, rply_size,
                   localPort, ret, wire, oldReq, polls, rtag, bindOk, sends,
                   taken, yields, rxLeft, readFrom, tloc, slot, stored,
                   retval, calc, serverName, sentTo, configured, codec,
                   onwire, net>>

\* time(), lines 79-83: the exchange failed, report and return -1
TimeReturnFail ==
    /\ pc = "failed"
    /\ pc' = "idle"
    /\ ret' = "-1"
    /\ retval' = -1
    /\ UNCHANGED <<packet, t1, xmt_bak, timeout, ms_cycles, rply_size, errno,
                   localPort, wire, oldReq, polls, rtag, ran, cause, bindOk,
                   sends, taken, yields, rxLeft, readFrom, kiss, tloc, slot,
                   stored, calc, serverName, sentTo, configured, codec,
                   onwire, net>>

\* time(), lines 84-123: the locals computed from the reply.  millis_delta
\* and elapsed are what millis() measured at lines 84 and 119.
TimeArithmetic(ts1, ts2, ts3, millis_delta, elapsed) ==
    LET ntp_time == Add32(ERA_OFFSET0_1_JAN_1970, TEST_OFFSET)
        t1d == DAdd(DFromU32(getSeconds64(LittleEndian, ts1)), XInt(0))
        t2d == TstampD(LittleEndian, ts2)
        t3d == TstampD(LittleEndian, ts3)
        t4d == T4d(t1d, millis_delta)
        clock_offset == ClockOffset(t1d, t2d, t3d, t4d)
        unix_time_d == UnixTimeD(clock_offset, ntp_time, elapsed)
    IN  [millis_delta |-> millis_delta,
         elapsed |-> elapsed,
         roundtrip_delay |-> RoundtripDelay(t1d, t2d, t3d, t4d),
         clock_offset |-> clock_offset,
         unix_time_d |-> unix_time_d,
         sync_ms_delay |-> SyncMsDelay(unix_time_d)]

\* the inputs of TimeArithmetic that occur with the timestamps of
\* ServerStamps, and its value for each of them, computed once
ArithmeticInputs ==
    LET ntp_time == Add32(ERA_OFFSET0_1_JAN_1970, TEST_OFFSET)
    IN  {<<generateTstamp64(LittleEndian, ntp_time, FracRaw(0, 1)),
           ValOf(LittleEndian, s.rec), ValOf(LittleEndian, s.xmt), md, el>> :
           s \in ServerStamps, md \in MillisDeltas, el \in ElapsedVals}
ArithmeticTable ==
    {[in |-> k, out |-> TimeArithmetic(k[1], k[2], k[3], k[4], k[5])] :
       k \in ArithmeticInputs}

\* TimeArithmetic, looked up where the table holds the value
TimeLocals(ts1, ts2, ts3, millis_delta, elapsed) ==
    LET k == <<ts1, ts2, ts3, millis_delta, elapsed>>
    IN  IF k \in ArithmeticInputs
        THEN (CHOOSE e \in ArithmeticTable : e.in = k).out
        ELSE TimeArithmetic(ts1, ts2, ts3, millis_delta, elapsed)

\* time(), lines 84-127: compute the offset and the corrected time and
\* sleep up to the next second.  delay() yields: the caller's object is
\* still unwritten while the sleep lasts.
SyncDelay ==
    /\ pc = "valid"
    /\ \E millis_delta \in Pick(MillisDeltas, 0),
          elapsed \in Pick(ElapsedVals, 0) :
         calc' = TimeLocals(t1, Field64(LittleEndian, packet, OFF_REC),
                            Field64(LittleEndian, packet, OFF_XMT),
                            millis_delta, elapsed)
    /\ pc' = "sleeping"
    /\ ran' = ran \cup {"sleep"}
    /\ UNCHANGED <<packet, t1, xmt_bak, timeout, ms_cycles, rply_size, errno,
                   localPort, ret, wire, oldReq, polls, rtag, cause, bindOk,
                   sends, taken, yields, rxLeft, readFrom, kiss, tloc, slot,
                   stored, retval, serverName, sentTo, configured, codec,
                   onwire, net>>

\* time() with errno = 0 on its successful return
TimeReturnOk_ClearsErrno ==
    /\ pc = "sleeping"
    /\ LET unix_time == TimeT(ModfInt(calc.unix_time_d))
       IN  /\ slot' = IF tloc THEN unix_time ELSE slot
           /\ stored' = tloc
           /\ retval' = unix_time
    /\ pc' = "idle"
    /\ ret' = "time"
    /\ errno' = NoError
    /\ UNCHANGED <<packet, t1, xmt_bak, timeout, ms_cycles, rply_size,
                   localPort, wire, oldReq, polls, rtag, ran, cause, bindOk,
                   sends, taken, yields, rxLeft, readFrom, kiss, tloc, calc,
                   serverName, sentTo, configured, codec, onwire, net>>

\* time(), lines 129-132: the sleep is over; store the whole second
\* through tloc and return it
TimeReturnOk ==
    /\ pc = "sleeping"
    /\ LET unix_time == TimeT(ModfInt(calc.unix_time_d))
       IN  /\ slot' = IF tloc THEN unix_time ELSE slot
           /\ stored' = tloc
           /\ retval' = unix_time
    /\ pc' = "idle"
    /\ ret' = "time"
    /\ UNCHANGED <<packet, t1, xmt_bak, timeout, ms_cycles, rply_size, errno,
                   localPort, wire, oldReq, polls, rtag, ran, cause, bindOk,
                   sends, taken, yields, rxLeft, readFrom, kiss, tloc, calc,
                   serverName, sentTo, configured, codec, onwire, net>>

Next ==
    \/ TimeCall
    \/ OnWireRequest
    \/ NetProvider
    \/ SendRequest
    \/ Poll
    \/ LoopTest
    \/ SizeCheck
    \/ ReadReply
    \/ ValidateReply
    \/ TimeReturnFail
    \/ SyncDelay
    \/ TimeReturnOk

Spec == Init /\ [][Next]_vars

\* receive_server_reply(packet, N) on its own, for every budget N from 0 to
\* MaxTimeout and for the engine's TIMEOUT: the state is the one in which
\* packetExchange() calls it, after the first request of the program has
\* been sent through the freshly bound endpoint.  packetExchange() itself
\* never passes N = 0 (lines 88-93).
InitRecv ==
    LET ntp_time == Add32(ERA_OFFSET0_1_JAN_1970, TEST_OFFSET)
        ts == generateTstamp64(LittleEndian, ntp_time, FracRaw(0, 1))
        req == BuildRequest(LittleEndian,
                   SetBytes(Zeros(PACKET_SIZE), OFF_XMT, MemOf(LittleEndian, ts)))
    IN  /\ pc = "recv"
        /\ packet = req
        /\ t1 = ts
        /\ xmt_bak = ts
        /\ timeout \in (0..MaxTimeout) \cup {TIMEOUT}
        /\ ms_cycles = 0
        /\ rply_size = 0
        /\ errno = NoError
        /\ localPort = UDP_LOCAL_PORT
        /\ ret = "none"
        /\ wire = req
        /\ oldReq = <<>>
        /\ polls = 0
        /\ rtag = "none"
        /\ ran = {"status", "bind", "resolve", "write", "finalize"}
        /\ cause = "none"
        /\ bindOk = 1
        /\ sends = 1
        /\ taken = 0
        /\ yields = 0
        /\ rxLeft = 0
        /\ readFrom = <<>>
        /\ kiss = "none"
        /\ tloc = FALSE
        /\ slot = 0
        /\ stored = FALSE
        /\ retval = 0
        /\ calc = NoCalc
        /\ serverName = ""
        /\ sentTo = ""
        /\ configured = <<>>
        /\ codec = NoCodec
        /\ onwire = NoOnWire
        /\ net = "any"

NextRecv ==
    \/ Poll
    \/ LoopTest
    \/ SizeCheck
    \/ ReadReply

SpecRecv == InitRecv /\ [][NextRecv]_vars

\* the application configures the server name between calls of time(), on
\* the network "plain": every call sends its request and then either gets a
\* well-formed reply at the first poll or polls in vain
InitConfig ==
    /\ IdleProgram
    /\ codec = NoCodec
    /\ onwire = NoOnWire
    /\ net = "plain"

NextConfig ==
    \/ Begin
    \/ SetServerName
    \/ TimeCall
    \/ OnWireRequest
    \/ NetProvider
    \/ SendRequest
    \/ Poll
    \/ LoopTest
    \/ SizeCheck
    \/ ReadReply
    \/ ValidateReply
    \/ TimeReturnFail
    \/ SyncDelay
    \/ TimeReturnOk

SpecConfig == InitConfig /\ [][NextConfig]_vars

\* the variables of the client, which the specifications of the codec and
\* of the offset computation leave alone
progVars ==
    <<pc, packet, t1, xmt_bak, timeout, ms_cycles, rply_size, errno,
      localPort, ret, wire, oldReq, polls, rtag, ran, cause, bindOk, sends,
      taken, yields, rxLeft, readFrom, kiss, tloc, slot, stored, retval,
      calc, serverName, sentTo, configured, net>>

\* seconds and fractions n / d handed to generateTstamp()
CodecSeconds(wide) ==
    IF wide THEN {<<0, 0, 0, 1>>, <<229, 64, 219, 33>>, <<255, 255, 255, 255>>}
    ELSE {<<0, 1>>, <<18, 52>>, <<255, 255>>}
Fractions ==
    UNION {{<<0, d>>, <<1, d>>, <<d - 1, d>>} : d \in {2, 3, MaxDenominator}}

\* the codec on its own: generateTstamp(&ts, secs, n / d), then
\* getSeconds(ts) and getFraction(ts), for both forms of the timestamp and
\* both branches of the byte-order conditional
InitCodec ==
    /\ IdleProgram
    /\ onwire = NoOnWire
    /\ net = "any"
    /\ codec \in {[step |-> "in", le |-> le, wide |-> wide, secs |-> secs,
                   n |-> f[1], d |-> f[2], ts |-> <<>>, seconds |-> <<>>,
                   fraction |-> <<>>] :
                     le \in BOOLEAN, wide \in BOOLEAN,
                     secs \in CodecSeconds(TRUE) \cup CodecSeconds(FALSE),
                     f \in Fractions}
    /\ codec.secs \in CodecSeconds(codec.wide)

Generate ==
    /\ codec.step = "in"
    /\ codec' = [codec EXCEPT
           !.step = "gen",
           !.ts = IF codec.wide
                  THEN generateTstamp64(codec.le, codec.secs,
                                        FracRaw(codec.n, codec.d))
                  ELSE generateTstamp32(codec.le, codec.secs,
                                        FricRaw(codec.n, codec.d))]
    /\ UNCHANGED <<progVars, onwire>>

GetBack ==
    /\ codec.step = "gen"
    /\ codec' = [codec EXCEPT
           !.step = "got",
           !.seconds = IF codec.wide THEN getSeconds64(codec.le, codec.ts)
                       ELSE getSeconds32(codec.le, codec.ts),
           !.fraction = IF codec.wide THEN getFraction64(codec.le, codec.ts)
                        ELSE getFraction32(codec.le, codec.ts)]
    /\ UNCHANGED <<progVars, onwire>>

NextCodec ==
    \/ Generate
    \/ GetBack

SpecCodec == InitCodec /\ [][NextCodec]_vars

\* the four timestamps of the offset step of time(), lines 94-99: t1d a
\* whole second, t4d = t1d + millis_delta / 1e3, t2d and t3d from a reply
OnWireT1 == {XInt(1000), XInt(0), DFromU32(<<229, 64, 219, 33>>)}
OnWireDeltas == {0, 1, 1000, 1024}
\* 1000.5, 999.0 and half a second past the largest T1
OnWireT2 ==
    {DDiv(2001, 2), XInt(999), DAdd(DFromU32(<<229, 64, 219, 33>>), DDiv(1, 2))}
\* 1000.6, 1000.5 and 1003 + 3/128
OnWireT3 ==
    {DDiv(10006, 10), DDiv(2001, 2), DAdd(XInt(1003), DDiv(3, 128))}

InitOnWire ==
    /\ IdleProgram
    /\ codec = NoCodec
    /\ net = "any"
    /\ onwire \in {[step |-> "in", t1d |-> a, t2d |-> b, t3d |-> c,
                    t4d |-> T4d(a, md), roundtrip_delay |-> XInt(0),
                    clock_offset |-> XInt(0)] :
                      a \in OnWireT1, md \in OnWireDeltas, b \in OnWireT2,
                      c \in OnWireT3}

OffsetStep ==
    /\ onwire.step = "in"
    /\ onwire' = [onwire EXCEPT
           !.step = "done",
           !.roundtrip_delay = RoundtripDelay(onwire.t1d, onwire.t2d,
                                              onwire.t3d, onwire.t4d),
           !.clock_offset = ClockOffset(onwire.t1d, onwire.t2d,
                                        onwire.t3d, onwire.t4d)]
    /\ UNCHANGED <<progVars, codec>>

NextOnWire == OffsetStep

SpecOnWire == InitOnWire /\ [][NextOnWire]_vars

TypeOK ==
    /\ pc \in {"idle", "called", "built", "avail", "recv", "yielding",
               "polled", "reading", "received", "valid", "sleeping", "failed",
               "crashed"}
    /\ localPort \in {0, UDP_LOCAL_PORT}
    /\ ms_cycles \in 0..TIMEOUT
    /\ Len(packet) = PACKET_SIZE
    /\ sends \in 0..MaxSends
    /\ rxLeft \in 0..68
    /\ Len(calc.unix_time_d.mag) = DW
    /\ net \in {"any", "plain"}

----------------------------------------------------------------------------
(* Properties *)

\* the fields of the reply held in the packet buffer
ReplyMode == packet[OFF_LI_VN_MODE + 1] % 8
ReplyVersion == (packet[OFF_LI_VN_MODE + 1] \div 8) % 8
ReplyLeap == packet[OFF_LI_VN_MODE + 1] \div 64
ReplyStratum == packet[OFF_STRATUM + 1]
ReplyOrg == SubSeq(packet, OFF_ORG + 1, OFF_ORG + 8)

\* the transmit timestamp bytes of the request this call has sent
SentT1 == XmtBytes(wire)

\* on_wire_exchange() has run its checks on a reply and has not returned
\* to the caller of time() yet
Validated == "validate" \in ran /\ pc \in {"failed", "valid"}

\* the reply passes the checks that come before the stratum checks
OuterFieldsOk == ReplyMode = 4 /\ ReplyVersion = 4 /\ ReplyLeap # 3

\* C1: the failure reported for a reply is the first failing check in the
\* order mode, version, leap alarm, stratum > 15, stratum = 0, originate.
C1_ValidationOrdering ==
    Validated =>
        IF ReplyMode # 4 THEN pc = "failed" /\ errno = EOPNOTSUPP
        ELSE IF ReplyVersion # 4 THEN pc = "failed" /\ errno = EPROTONOSUPPORT
        ELSE IF ReplyLeap = 3 THEN pc = "failed" /\ errno = ENODATA
        ELSE IF ReplyStratum > 15 THEN pc = "failed" /\ errno = EPFNOSUPPORT
        ELSE IF ReplyStratum = 0 THEN pc = "failed" /\ errno = EAGAIN
        ELSE IF ReplyOrg # SentT1 THEN pc = "failed" /\ errno = EBADMSG
        ELSE TRUE

\* a reply with wrong mode and wrong version, alarm leap bits clear,
\* reserved stratum and a foreign originate was rejected for its mode
C1_Witness ==
    /\ Validated
    /\ ReplyMode # 4 /\ ReplyVersion # 4 /\ ReplyStratum > 15
    /\ ReplyOrg # SentT1
    /\ errno = EOPNOTSUPP

\* C2: a reply whose originate timestamp differs from the T1 sent in this
\* exchange is rejected with EBADMSG when all other fields are valid, and
\* the exchange never succeeds with originate # T1.
C2_OriginEcho ==
    Validated =>
        /\ (pc = "valid" => ReplyOrg = SentT1 /\ ReplyOrg = MemOf(LittleEndian, t1))
        /\ (OuterFieldsOk /\ ReplyStratum \in 1..15 /\ ReplyOrg # SentT1
              => pc = "failed" /\ errno = EBADMSG)

\* an otherwise valid reply carrying T1 + 1 was rejected
C2_Witness ==
    /\ Validated
    /\ OuterFieldsOk /\ ReplyStratum = 1
    /\ ReplyOrg = PlusOne(SentT1)
    /\ pc = "failed" /\ errno = EBADMSG

\* C3: a later call of time() sends a T1 that differs from the one an
\* earlier call has sent, and a reply to the earlier request that is read
\* during the later call is rejected (with EBADMSG when it is otherwise
\* valid) and never accepted.
C3_StaleReplySafety ==
    /\ (wire # <<>> /\ oldReq # <<>> => XmtBytes(wire) # XmtBytes(oldReq))
    /\ (Validated /\ rtag = "stale" =>
          /\ pc = "failed"
          /\ (OuterFieldsOk /\ ReplyStratum \in 1..15 => errno = EBADMSG))

\* C4 as stated: every reply with stratum 0 fails with EAGAIN whatever
\* its other fields are (read on the replies whose validation has returned)
C4_Stratum0Always ==
    Validated /\ ReplyStratum = 0 => pc = "failed" /\ errno = EAGAIN

\* on_wire_exchange() has run its checks on a reply, whether it returned
\* or the program stopped in them
Judged == "validate" \in ran /\ pc \in {"failed", "valid", "crashed"}

\* C4 amended: no reply with stratum 0 is accepted.  When mode, version and
\* leap indicator pass their checks the exchange ends at the stratum-0
\* check, whatever the originate field and the reference id are: it fails
\* with EAGAIN, or the program stops in the kiss-code lookup.  Otherwise it
\* fails with the reason of the first failing one of these three checks.
C4_Stratum0Rule ==
    Judged /\ ReplyStratum = 0 =>
        /\ pc # "valid"
        /\ IF ReplyMode # 4 THEN pc = "failed" /\ errno = EOPNOTSUPP
           ELSE IF ReplyVersion # 4
                THEN pc = "failed" /\ errno = EPROTONOSUPPORT
           ELSE IF ReplyLeap = 3 THEN pc = "failed" /\ errno = ENODATA
           ELSE \/ pc = "failed" /\ errno = EAGAIN
                \/ pc = "crashed" /\ kiss = "none"

\* a stratum-0 reply with an unknown code and a foreign originate failed
\* with EAGAIN
C4_Witness ==
    /\ Validated
    /\ ReplyStratum = 0 /\ OuterFieldsOk
    /\ ReplyOrg # SentT1
    /\ SubSeq(packet, OFF_REFID + 1, OFF_REFID + 4) = <<88, 88, 88, 88>>
    /\ pc = "failed" /\ errno = EAGAIN

\* C5: when no datagram arrives receive_server_reply(timeout = N), N >= 1,
\* polls exactly N times, the number of polls never exceeds N, and the
\* exchange fails with EPROTONOSUPPORT.
C5_Timeout ==
    /\ (pc \in {"recv", "yielding", "polled"} =>
           polls <= timeout /\ ms_cycles <= timeout)
    /\ (pc = "recv" /\ timeout >= 1 => polls = ms_cycles /\ ms_cycles < timeout)
    /\ (pc = "yielding" => polls = ms_cycles + 1 /\ rply_size = 0)
    /\ (pc = "polled" /\ rply_size = 0 => polls = timeout /\ timeout >= 1)
    /\ (pc = "failed" /\ "poll" \in ran /\ "read" \notin ran /\ rply_size = 0
          => errno = EPROTONOSUPPORT)

\* the loop has ended after TIMEOUT polls without a datagram
C5_Witness ==
    pc = "polled" /\ rply_size = 0 /\ polls = TIMEOUT

\* C6: when the first datagram is shorter than the packet, the exchange
\* fails with EPROTONOSUPPORT, nothing is read (the buffer still holds the
\* request as sent), and neither validation nor the final sleep runs.
C6_ShortDatagram ==
    pc \in {"failed", "idle"} /\ "poll" \in ran
       /\ rply_size \in 1..(PACKET_SIZE - 1)
    => /\ errno = EPROTONOSUPPORT
       /\ packet = wire
       /\ ran \cap {"read", "validate", "sleep"} = {}
       /\ ret # "time"

\* a datagram of 47 bytes was rejected
C6_Witness ==
    /\ pc = "failed" /\ rply_size = PACKET_SIZE - 1
    /\ errno = EPROTONOSUPPORT /\ packet = wire /\ "read" \notin ran

\* the error kind of section 7 that belongs to a return statement
KindOfCause(site) ==
    CASE site = "netdown" -> "NetworkUnavailable"
      [] site = "resolve" -> "AddressUnavailable"
      [] site = "write" -> "Overflow"
      [] site = "readfail" -> "Overflow"
      [] site = "finalize" -> "IoError"
      [] site = "tooshort" -> "ProtocolMismatch"
      [] site = "mode" -> "UnsupportedOperation"
      [] site = "version" -> "UnsupportedProtocol"
      [] site = "leap" -> "NoDataAvailable"
      [] site = "stratum_reserved" -> "UnsupportedProtocolFamily"
      [] site = "stratum_zero" -> "TemporarilyUnavailable"
      [] site = "origin" -> "BadMessage"
      [] OTHER -> "none"

\* C7: the error value identifies the kind of the failure: two failures
\* that report the same error value have the same kind (a timed-out or
\* too-short reply is told apart from a wrong protocol version).
C7_DistinctReasons ==
    [][(pc' = "failed" /\ pc # "failed" /\ cause # "none" /\ errno' = errno)
          => KindOfCause(cause') = KindOfCause(cause)]_vars

\* the reason a failing stage must report, by the last stage that ran
StageReason(bindReason) ==
    IF "validate" \in ran
        THEN {EOPNOTSUPP, EPROTONOSUPPORT, ENODATA, EPFNOSUPPORT, EAGAIN, EBADMSG}
    ELSE IF "read" \in ran THEN {EOVERFLOW}
    ELSE IF "poll" \in ran THEN {EPROTONOSUPPORT}
    ELSE IF "finalize" \in ran THEN {EIO}
    ELSE IF "write" \in ran THEN {EOVERFLOW}
    ELSE IF "resolve" \in ran THEN {EADDRNOTAVAIL}
    ELSE IF "bind" \in ran THEN {bindReason}
    ELSE {ENETDOWN}

\* the stages run in their order, none is skipped
StagesInOrder ==
    /\ ran \cap {"bind", "reuse"} # {} => "status" \in ran
    /\ "resolve" \in ran =>
          ran \cap {"bind", "reuse"} # {} /\ localPort = UDP_LOCAL_PORT
    /\ "write" \in ran => "resolve" \in ran
    /\ "finalize" \in ran => "write" \in ran
    /\ "poll" \in ran => "finalize" \in ran /\ wire # <<>>
    /\ "read" \in ran => "poll" \in ran
    /\ "validate" \in ran => "read" \in ran
    /\ "sleep" \in ran =>
          "validate" \in ran /\ (pc = "sleeping" \/ ret = "time")
    /\ wire # <<>> => "finalize" \in ran

\* C8 as stated: a failure of the availability stage reports ENETDOWN
C8_StagedPipelineListed ==
    /\ StagesInOrder
    /\ pc = "failed" => errno \in StageReason(ENETDOWN)
    /\ ret = "-1" => "sleep" \notin ran

\* C8 amended: the stages run in order and the first failing stage decides
\* the reason, the availability stage reporting ENETDOWN when the network
\* is down and EISCONN when the local port cannot be bound; no later stage
\* runs after a failure.
C8_StagedPipeline ==
    /\ StagesInOrder
    /\ pc = "failed" => errno \in StageReason(EISCONN)
    /\ pc = "failed" /\ errno = ENETDOWN => ran = {"status"} /\ wire = <<>>
    /\ ret = "-1" => "sleep" \notin ran

\* a failed write: nothing was finalized, polled, read or validated
C8_Witness ==
    /\ pc = "failed" /\ errno = EOVERFLOW
    /\ ran \cap {"status", "resolve", "write"} = {"status", "resolve", "write"}
    /\ ran \cap {"finalize", "poll", "read", "validate", "sleep"} = {}

\* C9: the local port is 0 or UDP_LOCAL_PORT, bind is attempted only while
\* it is 0 and succeeds at most once, and a bound port stays bound.
C9_EndpointReuse ==
    [][/\ localPort' \in {0, UDP_LOCAL_PORT}
       /\ (localPort = UDP_LOCAL_PORT => localPort' = UDP_LOCAL_PORT)
       /\ ("bind" \in ran' /\ pc = "built" => localPort = 0)
       /\ bindOk' <= 1
       /\ (bindOk' = 1 <=> localPort' = UDP_LOCAL_PORT)]_vars

\* a later exchange has sent its request through the endpoint that an
\* earlier exchange has bound
C9_Witness ==
    /\ "reuse" \in ran /\ "bind" \notin ran
    /\ pc = "recv" /\ localPort = UDP_LOCAL_PORT /\ bindOk = 1

\* C10: the datagram sent has li_vn_mode 0x23, the transmit timestamp T1
\* and zero in every other byte, whatever the buffer held before.
C10_RequestConstruction ==
    wire # <<>> =>
        /\ Len(wire) = PACKET_SIZE
        /\ wire[OFF_LI_VN_MODE + 1] = 35
        /\ \A i \in 2..OFF_XMT : wire[i] = 0
        /\ XmtBytes(wire) = MemOf(LittleEndian, t1)
        /\ XmtBytes(wire) = <<229, 64, 219, 33, 0, 0, 0, 0>>

\* a request has been sent
C10_Witness ==
    pc = "recv" /\ wire # <<>> /\ wire[OFF_LI_VN_MODE + 1] = 35

\* the local state a call of time() starts from does not depend on what
\* earlier calls did
FreshCall ==
    /\ sends = 0 /\ taken = 0 /\ polls = 0 /\ ms_cycles = 0 /\ rply_size = 0
    /\ wire = <<>> /\ ran = {} /\ readFrom = <<>>
    /\ XmtBytes(packet) = <<229, 64, 219, 33, 0, 0, 0, 0>>

\* C11: one call of time() sends at most one request datagram and takes at
\* most one datagram from the socket; once a step of the exchange has
\* failed, the next step of the call is its return, without another send
\* or poll; the next call starts from the same local state as the first.
C11_NoInternalRetry ==
    [][/\ sends' <= 1
       /\ taken' <= 1
       /\ (pc = "failed" =>
              /\ pc' = "idle"
              /\ sends' = sends /\ taken' = taken /\ polls' = polls
              /\ wire' = wire /\ ran' = ran)
       /\ (pc' = "called" => FreshCall')
       /\ (pc' = "built" =>
              packet' = [i \in 1..PACKET_SIZE |->
                           IF i = 1 THEN 35
                           ELSE IF i > OFF_XMT
                                THEN XmtBytes(packet)[i - OFF_XMT]
                                ELSE 0])]_vars

\* a call that follows an earlier exchange has sent its request, has had
\* its first datagram rejected and has returned
C11_Witness ==
    /\ pc = "idle" /\ ret = "-1" /\ oldReq # <<>>
    /\ sends = 1 /\ taken = 1
    /\ cause \in {"tooshort", "mode", "origin"}

\* the last call of time() has returned
Returned == pc = "idle" /\ ret # "none"

\* what rounding in double arithmetic may add to or take from a result
\* of time(): 2^-20 s, less than a microsecond
Slack == XNum(FALSE, MPow2(44))

\* x and y differ by less than the slack
Near(x, y) == XLess(XSub(x, y), Slack) /\ XLess(XSub(y, x), Slack)

\* ms / 1000 as a number
XMillis(ms) == XNum(FALSE, MDiv(MFromNat(ms), MS))

\* n is x rounded towards zero
IntegerSecondsOf(x, n) ==
    IF ~x.neg
    THEN ~XLess(x, XInt(n)) /\ XLess(x, XInt(n + 1))
    ELSE XLess(XInt(n - 1), x) /\ ~XLess(XInt(n), x)

\* what time() does when the exchange has failed
FailureResult ==
    ret = "-1" =>
        /\ retval = -1
        /\ ~stored /\ slot = 0
        /\ "sleep" \notin ran /\ calc = NoCalc

\* what time() does when the exchange has succeeded
SuccessResult ==
    ret = "time" =>
        /\ "validate" \in ran /\ "sleep" \in ran
        /\ IntegerSecondsOf(calc.unix_time_d, retval)
        /\ (tloc => stored /\ slot = retval)
        /\ (~tloc => ~stored /\ slot = 0)

\* C12 as stated: time() returns -1 exactly when the exchange failed; then
\* nothing is stored through tloc and there is no sleep; otherwise the
\* integer seconds of the corrected time are returned and stored.
C12_ResultContract ==
    Returned =>
        /\ (retval = -1 <=> ret = "-1")
        /\ FailureResult
        /\ SuccessResult

\* C12, amended: a failed exchange returns -1 without store and sleep; a
\* successful one returns and stores the integer seconds of the corrected
\* time, which are -1 as well when that time lies between -2 and -1.
C12_ResultRule ==
    Returned =>
        /\ FailureResult
        /\ SuccessResult
        /\ (ret = "time" /\ retval = -1 =>
               /\ XLess(XInt(-2), calc.unix_time_d)
               /\ XLess(calc.unix_time_d, XInt(-1)))
        /\ ret \in {"-1", "time"}

\* a successful exchange whose result, stored through tloc, is -1
C12_Witness ==
    /\ Returned /\ ret = "time" /\ errno = NoError
    /\ tloc /\ stored /\ slot = -1 /\ retval = -1

\* the local clock's seconds since 1 January 1970: ntp_time less the era
\* offset
LocalClockSeconds == MToNat(MFromU32(TEST_OFFSET))

\* the corrected time at the moment time() computes unix_time_d
CorrectedNow ==
    XAdd(XAdd(calc.clock_offset, XInt(LocalClockSeconds)),
         XMillis(calc.elapsed))

\* the corrected time at the moment the sleep of ms milliseconds ends
CorrectedAfter(ms) == XAdd(CorrectedNow, XMillis(ms))

\* on success: unix_time_d is one second past the corrected time, the
\* result is its integer part, the sleep is 1000 ms less the milliseconds
\* of its fraction (cut to whole milliseconds), the result is later than
\* the corrected time and is reached, to the millisecond, when the sleep
\* ends; sums of doubles are compared up to the slack of their rounding
AlignedToNextSecond ==
    /\ Near(calc.unix_time_d, XAdd(XInt(1), CorrectedNow))
    /\ IntegerSecondsOf(calc.unix_time_d, retval)
    /\ LET f == XSub(calc.unix_time_d, XInt(retval))
           rest == XSub(XInt(1), f)
       IN  /\ XLess(XInt(-1), f) /\ XLess(f, XInt(1))
           /\ ~XLess(XAdd(rest, Slack), XMillis(calc.sync_ms_delay))
           /\ XLess(rest, XAdd(XMillis(calc.sync_ms_delay + 1), Slack))
    /\ XLess(CorrectedNow, XInt(retval))
    /\ ~XLess(XAdd(XInt(retval), Slack), CorrectedAfter(calc.sync_ms_delay))
    /\ XLess(XInt(retval),
             XAdd(CorrectedAfter(calc.sync_ms_delay + 1), Slack))

\* C13: on a successful call the returned second is the next whole second
\* of the corrected time, the sleep lasts up to that second and at most
\* 1000 ms.
C13_AlignNextSecond ==
    Returned /\ ret = "time" =>
        /\ AlignedToNextSecond
        /\ calc.sync_ms_delay <= MS

\* what time() does instead: the sleep is at most 1000 ms only when
\* unix_time_d is not negative; modf() gives a negative fraction for a
\* negative unix_time_d, and the sleep is then longer than 1000 ms and
\* shorter than 2000 ms
SleepOverrunsOnlyBeforeEpoch ==
    Returned /\ ret = "time" =>
        /\ AlignedToNextSecond
        /\ calc.sync_ms_delay >= 0
        /\ (~XLess(calc.unix_time_d, XInt(0)) => calc.sync_ms_delay <= MS)
        /\ calc.sync_ms_delay < 2 * MS

\* C14: the offset step yields roundtrip_delay with
\* roundtrip_delay + (T3 - T2) = T4 - T1 and clock_offset with
\* 2 * clock_offset + (T1 + T4) = T2 + T3, T4 being T1 plus the elapsed
\* milliseconds; for T1 = 1000.0, T2 = 1000.5, T3 = 1000.6, T4 = 1001.0
\* they are 0.9 and 0.05 (all up to the rounding of double arithmetic).
C14_OffsetDelayFormula ==
    onwire.step = "done" =>
        /\ MFrac(onwire.t1d.mag) = MZero
        /\ \E md \in OnWireDeltas :
              Near(onwire.t4d, XAdd(onwire.t1d, XMillis(md)))
        /\ Near(XAdd(onwire.roundtrip_delay, XSub(onwire.t3d, onwire.t2d)),
                XSub(onwire.t4d, onwire.t1d))
        /\ Near(XAdd(XAdd(onwire.clock_offset, onwire.clock_offset),
                     XAdd(onwire.t1d, onwire.t4d)),
                XAdd(onwire.t2d, onwire.t3d))
        /\ (/\ onwire.t1d = XInt(1000)
            /\ onwire.t2d = DDiv(2001, 2)
            /\ onwire.t3d = DDiv(10006, 10)
            /\ onwire.t4d = XInt(1001)
            => /\ Near(onwire.roundtrip_delay, DDiv(9, 10))
               /\ Near(onwire.clock_offset, DDiv(5, 100)))

\* the offset step has run on the timestamps of the example
C14_Witness ==
    /\ onwire.step = "done"
    /\ onwire.t1d = XInt(1000)
    /\ onwire.t2d = DDiv(2001, 2)
    /\ onwire.t3d = DDiv(10006, 10)
    /\ onwire.t4d = XInt(1001)
    /\ Near(onwire.clock_offset, DDiv(5, 100))

\* the fraction n / d handed to generateTstamp() lies less than one step
\* of 1 / FRIC above raw / FRIC, and not below it
WithinStep16(raw, n, d) ==
    LET v == raw[1] * 256 + raw[2]
    IN  v * d <= n * FRIC /\ n * FRIC < (v + 1) * d

\* the same for raw / FRAC and a step of 1 / FRAC: with raw = hi * FRIC + lo
\* the product raw * d is b * FRIC + a0, and n * FRAC is (n * FRIC) * FRIC
WithinStep32(raw, n, d) ==
    LET hi == raw[1] * 256 + raw[2]
        lo == raw[3] * 256 + raw[4]
        a0 == (lo * d) % FRIC
        b == hi * d + ((lo * d) \div FRIC)
    IN  \/ b = n * FRIC /\ a0 = 0
        \/ b = n * FRIC - 1 /\ a0 > 0 /\ FRIC - a0 < d

\* C15: getSeconds() of a generated timestamp is the seconds value it was
\* generated from, and getFraction() is within one quantization step of the
\* fraction, for both forms and both byte orders.
C15_CodecRoundTrip ==
    codec.step = "got" =>
        /\ codec.seconds = codec.secs
        /\ IF codec.wide
           THEN WithinStep32(codec.fraction, codec.n, codec.d)
           ELSE WithinStep16(codec.fraction, codec.n, codec.d)

\* what holds of the codec: the round trip on the little-endian branch, and
\* on the big-endian branch the fraction only, getSeconds() returning the
\* fraction half of the timestamp
C15_CodecRoundTripLittleEndian ==
    codec.step = "got" =>
        /\ (codec.le => codec.seconds = codec.secs)
        /\ (~codec.le => codec.seconds = codec.fraction)
        /\ IF codec.wide
           THEN WithinStep32(codec.fraction, codec.n, codec.d)
           ELSE WithinStep16(codec.fraction, codec.n, codec.d)

\* the bytes of the generated timestamp in the memory of the host
TstampBytes == MemOf(codec.le, codec.ts)

\* C16: in memory order the generated timestamp is the seconds, most
\* significant byte first, followed by the fraction field rounded down,
\* most significant byte first, on either byte order of the host.
C16_ByteOrderInvariance ==
    codec.step \in {"gen", "got"} =>
        LET h == IF codec.wide THEN 4 ELSE 2
        IN  /\ Len(TstampBytes) = 2 * h
            /\ SubSeq(TstampBytes, 1, h) = codec.secs
            /\ IF codec.wide
               THEN WithinStep32(SubSeq(TstampBytes, h + 1, 2 * h),
                                 codec.n, codec.d)
               ELSE WithinStep16(SubSeq(TstampBytes, h + 1, 2 * h),
                                 codec.n, codec.d)

\* a 64-bit timestamp generated on a little-endian host from 3846232865
\* seconds and half a second
C16_Witness ==
    /\ codec.step = "gen" /\ codec.le /\ codec.wide
    /\ codec.n = 1 /\ codec.d = 2
    /\ TstampBytes = <<229, 64, 219, 33, 128, 0, 0, 0>>

\* the four bytes of the reference-id field of the reply
ReplyRefId == SubSeq(packet, OFF_REFID + 1, OFF_REFID + 4)

\* C17: for a stratum-0 reply the lookup reports the code as known exactly
\* when the four bytes of the reference id are one of the fourteen codes of
\* the table, and the lookup has no other effect on the exchange, which
\* fails with EAGAIN.
C17_KissCodeLookup ==
    /\ pc # "crashed"
    /\ (Validated /\ OuterFieldsOk /\ ReplyStratum = 0 =>
           /\ kiss \in {"known", "unknown"}
           /\ (kiss = "known" <=> ReplyRefId \in kod_table)
           /\ pc = "failed" /\ errno = EAGAIN)

\* C18: a datagram of 48 bytes or more passes the size check; the read
\* puts its first 48 bytes into the packet buffer and no other byte, and
\* after the flush() that follows nothing of it is left in the socket;
\* nothing is left from then on until a poll of a later exchange asks the
\* socket for a datagram.
C18_OversizeDatagram ==
    [][/\ (pc = "polled" /\ rply_size >= PACKET_SIZE => pc' = "reading")
       /\ (pc' = "received" =>
              /\ rply_size' >= PACKET_SIZE
              /\ Len(readFrom') = rply_size'
              /\ Len(packet') = PACKET_SIZE
              /\ packet' = SubSeq(readFrom', 1, PACKET_SIZE)
              /\ rxLeft' = 0)
       /\ (rxLeft = 0 /\ pc # "recv" => rxLeft' = 0)]_vars

\* a datagram of 68 bytes has been read: 48 bytes copied, 20 dropped
C18_Witness ==
    /\ pc = "received" /\ rply_size = 68
    /\ Len(readFrom) = 68 /\ SubSeq(readFrom, PACKET_SIZE + 1, 68) = Trailer
    /\ packet = SubSeq(readFrom, 1, PACKET_SIZE)
    /\ rxLeft = 0

\* the most recently supplied non-null name of a sequence of begin() and
\* setServerName() calls, the default if there is none
RECURSIVE LastNonNullName(_)
LastNonNullName(calls) ==
    IF calls = <<>> THEN DEFAULT_NTP_SERVER
    ELSE IF ~calls[Len(calls)].null THEN calls[Len(calls)].name
    ELSE LastNonNullName(SubSeq(calls, 1, Len(calls) - 1))

\* the name the code keeps: empty before the first call that sets one, the
\* default after begin(nullptr), the name after a call with a name, and
\* unchanged by setServerName(nullptr)
RECURSIVE NameKept(_)
NameKept(calls) ==
    IF calls = <<>> THEN ""
    ELSE LET c == calls[Len(calls)]
         IN  IF ~c.null THEN c.name
             ELSE IF c.op = "begin" THEN DEFAULT_NTP_SERVER
             ELSE NameKept(SubSeq(calls, 1, Len(calls) - 1))

\* a begin() or setServerName() call is made in this step
Configures == configured' # configured

\* configuring resolves nothing and sends nothing, and
\* setServerName(nullptr) keeps the name and sets EINVAL
ConfiguresOffline ==
    Configures =>
        /\ UNCHANGED <<pc, ran, wire, sends, taken, localPort, bindOk,
                       sentTo, rxLeft>>
        /\ LET c == configured'[Len(configured')]
           IN  IF c.op = "set" /\ c.null
               THEN serverName' = serverName /\ errno' = EINVAL
               ELSE errno' = errno

\* C19 as stated: the exchange sends to the most recently supplied non-null
\* name, or to the default if none was supplied; setServerName(nullptr)
\* keeps the name and reports EINVAL; configuring does nothing on the net.
C19_ServerNameConfiguration ==
    [][/\ (pc' # "idle" /\ sentTo' # NoHost =>
              sentTo' = LastNonNullName(configured'))
       /\ ConfiguresOffline]_vars

\* C19, amended: the exchange sends to the name the last call with a
\* non-null name or the last begin(nullptr), whichever is later, has set
\* (the default for begin(nullptr)); to the empty name if there was neither.
C19_ServerNameRule ==
    [][/\ (pc' # "idle" /\ sentTo' # NoHost =>
              sentTo' = NameKept(configured'))
       /\ serverName' = NameKept(configured')
       /\ ConfiguresOffline]_vars

\* a name was set, begin(nullptr) followed, and the request went to the
\* default host
C19_Witness ==
    /\ Len(configured) = 2
    /\ ~configured[1].null
    /\ configured[2].op = "begin" /\ configured[2].null
    /\ sentTo = DEFAULT_NTP_SERVER /\ pc = "recv"

\* C20: while the loop goes on every poll so far found nothing and was
\* followed by its yield, in which the code waits before it counts the
\* turn; the loop ends at the first datagram, reported by
\* poll k <= timeout after k - 1 yields, or after timeout polls that all
\* found nothing; a datagram is never rejected as too short unless it is.
C20_CooperativePolling ==
    /\ (pc = "recv" =>
           /\ rply_size = 0 /\ taken = 0
           /\ yields = polls /\ (timeout >= 1 => polls < timeout))
    /\ (pc = "yielding" =>
           /\ rply_size = 0 /\ taken = 0
           /\ yields = polls /\ ms_cycles = polls - 1)
    /\ (pc = "polled" /\ rply_size # 0 =>
           /\ taken = 1
           /\ polls >= 1 /\ polls <= timeout
           /\ yields = polls - 1)
    /\ (pc = "polled" /\ rply_size = 0 =>
           /\ taken = 0
           /\ polls = timeout /\ yields = timeout)
    /\ (pc = "failed" /\ cause = "tooshort" => rply_size < PACKET_SIZE)

\* a full-size reply reported by the last poll of the budget
C20_Witness ==
    /\ pc = "polled" /\ rply_size = PACKET_SIZE
    /\ timeout = MaxTimeout
    /\ polls = timeout /\ yields = timeout - 1

\* the transport has handed a datagram to on_wire_exchange(): read() has
\* copied a whole packet from it
Delivered == readFrom # <<>>

\* the header fields of the first 48 bytes of datagram d
DgMode(d) == d[OFF_LI_VN_MODE + 1] % 8
DgVersion(d) == (d[OFF_LI_VN_MODE + 1] \div 8) % 8
DgLeap(d) == d[OFF_LI_VN_MODE + 1] \div 64
DgStratum(d) == d[OFF_STRATUM + 1]
DgOrg(d) == SubSeq(d, OFF_ORG + 1, OFF_ORG + 8)

\* datagram d has at least 48 bytes, and its first 48 bytes are a server
\* reply of version 4 without leap alarm, of stratum 1..15, echoing the T1
\* this call has sent
Acceptable(d) ==
    /\ Len(d) >= PACKET_SIZE
    /\ DgMode(d) = 4
    /\ DgVersion(d) = 4
    /\ DgLeap(d) # 3
    /\ DgStratum(d) \in 1..15
    /\ DgOrg(d) = SentT1

\* C21: on_wire_exchange() returns true exactly when the transport has
\* delivered a datagram of at least 48 bytes whose first 48 bytes have mode
\* server, version 4, no leap alarm, stratum 1..15 and originate = the T1
\* sent; it returns false in every other case, and a stratum-0 reply is
\* never accepted (the call that read it does not return a time either).
C21_AcceptanceCharacterisation ==
    /\ (pc \in {"valid", "sleeping"} => Delivered /\ Acceptable(readFrom))
    /\ (pc = "failed" => ~(Delivered /\ Acceptable(readFrom)))
    /\ (Delivered /\ Acceptable(readFrom)
          => pc \in {"received", "valid", "sleeping"}
             \/ (pc = "idle" /\ ret = "time"))
    /\ (Delivered /\ DgStratum(readFrom) = 0
          => pc \in {"received", "failed", "crashed"}
             \/ (pc = "idle" /\ ret = "-1"))

\* a datagram of 68 bytes with stratum 15 that echoes T1 was accepted
C21_Witness ==
    /\ pc = "valid"
    /\ Len(readFrom) = 68
    /\ DgStratum(readFrom) = 15
    /\ Acceptable(readFrom)

\* the server's receive and transmit timestamps of the reply in the packet
\* buffer as seconds since 1 January 1970, and the time the server spent
\* between them
ServerStamp(off) ==
    LET ts == Field64(LittleEndian, packet, off)
    IN  XSub(XAdd(DFromU32(getSeconds64(LittleEndian, ts)),
                  DFrac32(getFraction64(LittleEndian, ts))),
             DFromU32(ERA_OFFSET0_1_JAN_1970))
ReplyT2d == ServerStamp(OFF_REC)
ReplyT3d == ServerStamp(OFF_XMT)
ServerHold == XSub(ReplyT3d, ReplyT2d)

\* the exchange this call has measured fits a network whose delay is the
\* same in both directions and a server whose timestamps are the true
\* time: the server held the request no longer than the exchange lasted,
\* and the rest of the exchange is twice the one-way delay
SymmetricTrueTime ==
    /\ ~ServerHold.neg
    /\ ~XLess(XMillis(calc.millis_delta), ServerHold)

\* the one-way network delay of such an exchange
OneWayDelay ==
    XNum(FALSE, MHalf(XSub(XMillis(calc.millis_delta), ServerHold).mag))

\* the server's time at the moment the sleep of ms milliseconds ends: the
\* reply left the server at T3, took the one-way delay, and then the time
\* up to the computation of unix_time_d and the sleep went by
ServerTimeAfter(ms) ==
    XAdd(XAdd(XAdd(ReplyT3d, OneWayDelay), XMillis(calc.elapsed)),
         XMillis(ms))

\* the number r is the server's time when time() returns, to within the
\* millisecond the sleep is cut to (and the slack of rounding)
IsServerTimeAtReturn(r) ==
    /\ ~XLess(XAdd(r, Slack), ServerTimeAfter(calc.sync_ms_delay))
    /\ XLess(r, XAdd(ServerTimeAfter(calc.sync_ms_delay + 1), Slack))

\* C22: with the same network delay in both directions and true server
\* timestamps, the whole second a successful time() returns is the
\* server's time at the instant it returns (to within the 1 ms the sleep
\* is cut to), whatever the duration of the exchange was.
C22_AccuracyIndependentOfDuration ==
    Returned /\ ret = "time" /\ SymmetricTrueTime
        => IsServerTimeAtReturn(XInt(retval))

\* what time() does instead: the second it returns is behind the server's
\* time at the instant it returns by the duration of the exchange
ReturnedTimeLagsByExchange ==
    Returned /\ ret = "time" /\ SymmetricTrueTime
        => IsServerTimeAtReturn(XAdd(XInt(retval), XMillis(calc.millis_delta)))

\* the value each return statement of the exchange assigns to errno:
\* packetExchange (part_000:91), net_provider (218, 234),
\* send_server_request (250, 256, 262), receive_server_reply (275, 293,
\* 299), on_wire_exchange (ntpclient.cpp:206-248)
ReasonOfSite(site) ==
    CASE site = "badarg" -> EINVAL
      [] site = "netdown" -> ENETDOWN
      [] site = "bind" -> EISCONN
      [] site = "resolve" -> EADDRNOTAVAIL
      [] site = "write" -> EOVERFLOW
      [] site = "finalize" -> EIO
      [] site = "tooshort" -> EPROTONOSUPPORT
      [] site = "readfail" -> EOVERFLOW
      [] site = "mode" -> EOPNOTSUPP
      [] site = "version" -> EPROTONOSUPPORT
      [] site = "leap" -> ENODATA
      [] site = "stratum_reserved" -> EPFNOSUPPORT
      [] site = "stratum_zero" -> EAGAIN
      [] site = "origin" -> EBADMSG
      [] OTHER -> NoError

\* the step in which an exchange fails
ExchangeFails == pc # "failed" /\ pc' = "failed"

\* C23: a successful exchange neither sets nor clears errno: errno changes
\* in no step but the one in which an exchange fails, that step assigns it
\* the one reason of the return statement taken, and so errno always holds
\* the reason of the most recent failure, or 0 when there was none, also
\* after a successful time().
C23_ErrorStateOnSuccess ==
    /\ [](errno = ReasonOfSite(cause))
    /\ [](errno = NoError <=> cause = "none")
    /\ [][IF ExchangeFails
          THEN errno' = ReasonOfSite(cause') /\ errno' # NoError
          ELSE errno' = errno /\ cause' = cause]_vars

\* a call of time() has succeeded and errno still holds the reason of an
\* earlier call's failure
C23_Witness ==
    /\ Returned /\ ret = "time"
    /\ "sleep" \in ran
    /\ errno = EBADMSG /\ cause = "origin"

====
